---- MODULE Spec2Model ----
(***************************************************************************)
(* Model of the data-preparation pipeline of Phynteny (src/format_data.py): *)
(* filtering, dereplication, orientation flipping, one-hot masking and     *)
(* dataset assembly.  Python lists are TLA+ sequences: the Python index i  *)
(* is the TLA+ index i + 1, and the model keeps the Python (0-based)       *)
(* indices in its variables (idx, i, f).  A dict is the sequence of its    *)
(* (key, value) entries in insertion order.                                *)
(***************************************************************************)
EXTENDS Integers, Sequences, FiniteSets, TLC

VARIABLES
    pc,               \* position of the running function
    sequence,         \* generate_example: integer-encoded categories of one genome
    features,         \* generate_example: list of feature lists of that genome
    idx,              \* index to mask (0-based)
    padded_sequence,  \* generate_example: result of pad_sequences
    X,                \* input tensor (generate_example) or list of them (datasets)
    y,                \* target tensor (generate_example) or list of them (datasets)
    f,                \* generate_example: loop counter over features
    sequences,        \* datasets: list of category sequences
    all_features,     \* datasets: list of feature lists, one per genome
    i,                \* loop counter over the genomes (0-based)
    func,             \* balanced policy: current target category
    masked_func,      \* datasets: masked label per example
    genome_included,  \* balanced policy: inclusion list
    genomes,          \* generate_data: genomes of the pickled file, in key order
    training_data,    \* derep_trainingdata / flip_genomes: input dict
    data,             \* generate_data / flip_genomes / derep: result dict
    included,         \* generate_data: counter
    not_included,     \* generate_data: counter
    phrog_encoding,   \* dict from gene label (PHROG) to category
    data_derep,       \* generate_data / derep_trainingdata: dereplicated dict
    training_encodings,   \* format_data: category sequence per genome
    sense_encodings,      \* format_data: strand codes per genome
    start_encodings,      \* format_data: start offsets per genome
    length_encodings,     \* format_data: gene lengths per genome
    intergenic_encodings, \* format_data: intergenic distances per genome
    self,                 \* Model.__init__: the attributes set so far
    arg,                  \* parameters of Model.__init__ / text given to check_positive
    int_value,            \* check_positive: value = int(arg)
    scores_list,          \* statistics: one row of class scores per instance
    normed_scores,        \* statistics: result of norm_scores
    known_categories,     \* per_category_auc: true category per instance
    binary_scores,        \* per_category_auc: scores of the category of the iteration
    known_category,       \* known_category: list of the categories found
    zero_row              \* get_masked: index of the masked row

vars == <<pc, sequence, features, idx, padded_sequence, X, y, f, sequences,
          all_features, i, func, masked_func, genome_included, genomes,
          training_data, data, included, not_included, phrog_encoding,
          data_derep, training_encodings, sense_encodings, start_encodings,
          length_encodings, intergenic_encodings, self, arg, int_value, scores_list,
          normed_scores, known_categories, binary_scores, known_category, zero_row>>

exampleVars == <<sequence, features, padded_sequence, f>>
datasetVars == <<sequences, all_features, i, func, masked_func, genome_included>>
formatVars  == <<training_encodings, sense_encodings, start_encodings,
                 length_encodings, intergenic_encodings>>
configVars  == <<self, arg, int_value>>
statsVars   == <<scores_list, normed_scores, known_categories, binary_scores,
                 known_category, zero_row>>
genomeVars  == <<genomes, training_data, data, included, not_included,
                 phrog_encoding, data_derep, formatVars, configVars, statsVars>>

(***************************************************************************)
(* Bounds of the model and constants of the program.                       *)
(***************************************************************************)
\* num_functions: categories are 0 .. NumFunctions - 1
NumFunctions == 3
\* max_length: number of rows of every tensor
MaxLength == 3
\* the five feature lists returned by format_data
NumFeatures == 5
\* seeds of the feature values handed to generate_example
MaxFeatureSeed == 1

n_features == NumFunctions + NumFeatures
Categories == 0 .. (NumFunctions - 1)

(***************************************************************************)
(* Helpers on sequences.                                                   *)
(***************************************************************************)
\* all sequences over S of length lo .. hi
SeqsOf(S, lo, hi) == UNION {[1 .. n -> S] : n \in lo .. hi}

\* a Python list of n copies of v
Repeat(v, n) == [j \in 1 .. n |-> v]

\* s[::-1]
Reverse(s) == [j \in 1 .. Len(s) |-> s[Len(s) + 1 - j]]

\* s[k:] for 0 <= k
DropFirst(s, k) == [j \in 1 .. (Len(s) - k) |-> s[j + k]]

ZeroVector(n) == Repeat(0, n)

(***************************************************************************)
(* pad_sequences([sequence], padding = 'post', maxlen = max_length)[0].    *)
(* The keras defaults are truncating = 'pre' and value = 0: a sequence     *)
(* longer than maxlen loses its first genes, a shorter one gets zeros at   *)
(* its end.                                                                *)
(***************************************************************************)
\* pad_sequences with the zeros put before the genes (padding = 'pre')
pad_sequences_pre(s, maxlen) ==
    LET trunc == IF Len(s) > maxlen THEN DropFirst(s, Len(s) - maxlen) ELSE s
    IN  Repeat(0, maxlen - Len(trunc)) \o trunc

pad_sequences(s, maxlen) ==
    LET trunc == IF Len(s) > maxlen THEN DropFirst(s, Len(s) - maxlen) ELSE s
    IN  trunc \o Repeat(0, maxlen - Len(trunc))

\* the row one_hot_encode builds for one value: vector[value] = 1
one_hot_vector(value, n) == [c \in 1 .. n |-> IF c = value + 1 THEN 1 ELSE 0]

\* one_hot_encode(sequence, n_features)
one_hot_encode(s, n) == [r \in 1 .. Len(s) |-> one_hot_vector(s[r], n)]

\* encode_feature succeeds iff the slice encoding[:len(feature), column]
\* has len(feature) rows and the column exists
encode_feature_ok(encoding, feature, column) ==
    /\ Len(feature) <= Len(encoding)
    /\ \A r \in 1 .. Len(encoding) : column < Len(encoding[r])

\* encode_feature(encoding, feature, column):
\* encoding[:len(feature), column] = feature
encode_feature(encoding, feature, column) ==
    [r \in 1 .. Len(encoding) |->
        [c \in 1 .. Len(encoding[r]) |->
            IF r <= Len(feature) /\ c = column + 1
            THEN feature[r] ELSE encoding[r][c]]]

\* the mask put one row too far
mask_row_next(M, index, num_functions) ==
    [r \in 1 .. Len(M) |->
        [c \in 1 .. Len(M[r]) |->
            IF r = index + 2 /\ c <= num_functions THEN 0 ELSE M[r][c]]]

\* the mask put on every column of the row
mask_row_whole(M, index, num_functions) ==
    [r \in 1 .. Len(M) |->
        [c \in 1 .. Len(M[r]) |-> IF r = index + 1 THEN 0 ELSE M[r][c]]]

\* X[idx, 0:num_functions] = np.zeros(num_functions)
mask_row(M, index, num_functions) ==
    [r \in 1 .. Len(M) |->
        [c \in 1 .. Len(M[r]) |->
            IF r = index + 1 /\ c <= num_functions THEN 0 ELSE M[r][c]]]

\* the loop "for f in range(len(features))" of generate_example, from
\* feature k on (0-based)
RECURSIVE encode_features_from(_, _, _, _)
encode_features_from(M, feats, num_functions, k) ==
    IF k >= Len(feats) THEN M
    ELSE encode_features_from(
             encode_feature(M, feats[k + 1], num_functions + k),
             feats, num_functions, k + 1)

\* generate_example raises instead of returning
generate_example_raises(s, feats, max_length, index) ==
    \/ \E k \in 1 .. Len(feats) : Len(feats[k]) > max_length
    \/ index >= max_length

\* generate_example with the target tensor masked like the input tensor
generate_example_masked_target(s, feats, num_functions, nf, max_length, index) ==
    LET padded == pad_sequences(s, max_length)
        y0 == one_hot_encode(padded, num_functions)
        X0 == one_hot_encode(padded, nf)
        X1 == encode_features_from(X0, feats, num_functions, 0)
    IN  [X |-> mask_row(X1, index, num_functions),
         y |-> mask_row(y0, index, num_functions)]

\* generate_example(sequence, features, num_functions, n_features,
\* max_length, idx), when it returns
generate_example(s, feats, num_functions, nf, max_length, index) ==
    LET padded == pad_sequences(s, max_length)
        y0 == one_hot_encode(padded, num_functions)
        X0 == one_hot_encode(padded, nf)
        X1 == encode_features_from(X0, feats, num_functions, 0)
    IN  [X |-> mask_row(X1, index, num_functions), y |-> y0]

(***************************************************************************)
(* Inputs of generate_example.                                             *)
(***************************************************************************)
\* the feature lists of a genome of n genes: five aligned lists of n values
\* (integer stand-ins for the normalised values), or no feature at all
\* (feature subset 'none')
FeatureList(n, seed) ==
    [k \in 1 .. NumFeatures |-> [j \in 1 .. n |-> 1 + ((k + j + seed) % 3)]]

FeatureChoices(n) == {FeatureList(n, seed) : seed \in 0 .. MaxFeatureSeed} \cup {<<>>}

(***************************************************************************)
(* generate_example, statement by statement.                               *)
(***************************************************************************)
ExampleIdle ==
    /\ sequence = <<>> /\ features = <<>>
    /\ padded_sequence = <<>> /\ f = 0

DatasetIdle ==
    /\ sequences = <<>> /\ all_features = <<>> /\ i = 0 /\ func = 0
    /\ masked_func = <<>> /\ genome_included = <<>>

ConfigIdle == self = <<>> /\ arg = <<>> /\ int_value = 0

StatsIdle ==
    /\ scores_list = <<>> /\ normed_scores = <<>> /\ known_categories = <<>>
    /\ binary_scores = <<>> /\ known_category = <<>> /\ zero_row = 0

FormatIdle ==
    /\ training_encodings = <<>> /\ sense_encodings = <<>>
    /\ start_encodings = <<>> /\ length_encodings = <<>>
    /\ intergenic_encodings = <<>>

GenomeIdle ==
    /\ genomes = <<>> /\ training_data = <<>> /\ data = <<>>
    /\ included = 0 /\ not_included = 0
    /\ phrog_encoding = <<>> /\ data_derep = <<>>
    /\ FormatIdle /\ ConfigIdle /\ StatsIdle

InitExample ==
    /\ pc = "example_start"
    /\ sequence \in SeqsOf(Categories, 1, MaxLength + 1)
    /\ features \in FeatureChoices(Len(sequence))
    /\ idx \in 0 .. (Len(sequence) - 1)
    /\ padded_sequence = <<>> /\ f = 0
    /\ X = <<>> /\ y = <<>>
    /\ DatasetIdle /\ GenomeIdle

\* lines 383-386: pad, then one-hot encode the target and the input
ExamplePad ==
    /\ pc = "example_start"
    /\ padded_sequence' = pad_sequences(sequence, MaxLength)
    /\ y' = one_hot_encode(padded_sequence', NumFunctions)
    /\ X' = one_hot_encode(padded_sequence', n_features)
    /\ f' = 0
    /\ pc' = "example_features"
    /\ UNCHANGED <<sequence, features, idx, datasetVars, genomeVars>>

\* lines 388-389: one iteration of the loop over the features
ExampleEncodeFeature ==
    /\ pc = "example_features"
    /\ f < Len(features)
    /\ IF encode_feature_ok(X, features[f + 1], NumFunctions + f)
       THEN /\ X' = encode_feature(X, features[f + 1], NumFunctions + f)
            /\ f' = f + 1
            /\ pc' = pc
       ELSE /\ pc' = "example_raised"
            /\ UNCHANGED <<X, f>>
    /\ UNCHANGED <<sequence, features, idx, padded_sequence, y, datasetVars, genomeVars>>

\* line 392: the mask (an index past the last row raises IndexError)
ExampleMask ==
    /\ pc = "example_features"
    /\ f = Len(features)
    /\ IF idx < Len(X)
       THEN /\ X' = mask_row(X, idx, NumFunctions)
            /\ pc' = "example_returned"
       ELSE /\ pc' = "example_raised"
            /\ X' = X
    /\ UNCHANGED <<sequence, features, idx, padded_sequence, y, f, datasetVars, genomeVars>>

NextExample == ExamplePad \/ ExampleEncodeFeature \/ ExampleMask

SpecExample == InitExample /\ [][NextExample]_vars

(***************************************************************************)
(* generate_prediction, statement by statement.                            *)
(***************************************************************************)
\* the first unknown gene only
unknown_idx_first(s) ==
    LET unknown == SelectSeq([k \in 1 .. Len(s) |-> k - 1], LAMBDA k : s[k + 1] = 0)
    IN  IF unknown = <<>> THEN <<>> ELSE <<unknown[1]>>

\* [i for i, x in enumerate(sequence) if x == 0]
unknown_idx(s) ==
    SelectSeq([k \in 1 .. Len(s) |-> k - 1], LAMBDA k : s[k + 1] = 0)

InitPrediction ==
    /\ pc = "generate_prediction"
    /\ sequence \in SeqsOf(Categories, 1, MaxLength + 1)
    /\ features \in FeatureChoices(Len(sequence))
    /\ idx = 0
    /\ padded_sequence = <<>> /\ f = 0
    /\ X = <<>> /\ y = <<>>
    /\ DatasetIdle /\ GenomeIdle

\* lines 412-415: pad, then one-hot encode the input
PredictionPad ==
    /\ pc = "generate_prediction"
    /\ padded_sequence' = pad_sequences(sequence, MaxLength)
    /\ X' = one_hot_encode(padded_sequence', n_features)
    /\ f' = 0
    /\ pc' = "prediction_features"
    /\ UNCHANGED <<sequence, features, idx, y, datasetVars, genomeVars>>

\* lines 416-417: one iteration of the loop over the features
PredictionEncodeFeature ==
    /\ pc = "prediction_features"
    /\ f < Len(features)
    /\ IF encode_feature_ok(X, features[f + 1], NumFunctions + f)
       THEN /\ X' = encode_feature(X, features[f + 1], NumFunctions + f)
            /\ f' = f + 1
            /\ pc' = pc
       ELSE /\ pc' = "prediction_raised"
            /\ UNCHANGED <<X, f>>
    /\ UNCHANGED <<sequence, features, idx, padded_sequence, y, datasetVars, genomeVars>>

\* line 420: the unknown genes are listed
PredictionUnknown ==
    /\ pc = "prediction_features"
    /\ f = Len(features)
    /\ i' = 0
    /\ pc' = "prediction_mask"
    /\ UNCHANGED <<X, y, idx, exampleVars, sequences, all_features, func, masked_func,
                   genome_included, genomeVars>>

\* lines 421-422: one iteration of the loop over the unknown genes (an
\* index past the last row raises IndexError)
PredictionMask ==
    /\ pc = "prediction_mask"
    /\ i < Len(unknown_idx(sequence))
    /\ LET unk == unknown_idx(sequence)[i + 1]
       IN  IF unk < Len(X)
           THEN /\ X' = mask_row(X, unk, NumFunctions)
                /\ i' = i + 1
                /\ pc' = pc
           ELSE /\ pc' = "prediction_raised"
                /\ UNCHANGED <<X, i>>
    /\ UNCHANGED <<y, idx, exampleVars, sequences, all_features, func, masked_func,
                   genome_included, genomeVars>>

\* line 424: the tensor is reshaped and returned
PredictionReturn ==
    /\ pc = "prediction_mask"
    /\ i = Len(unknown_idx(sequence))
    /\ pc' = "prediction_returned"
    /\ UNCHANGED <<X, y, idx, exampleVars, datasetVars, genomeVars>>

NextPrediction ==
    \/ PredictionPad \/ PredictionEncodeFeature \/ PredictionUnknown
    \/ PredictionMask \/ PredictionReturn

SpecPrediction == InitPrediction /\ [][NextPrediction]_vars

\* generate_example or generate_prediction called on a genome
InitTensor == InitExample \/ InitPrediction

SpecTensor ==
    InitTensor /\ [][NextExample \/ NextPrediction]_vars

(***************************************************************************)
(* Dataset assembly: generate_dataset (uniform policy) and                 *)
(* generate_dataset_unbiased_category (category-balanced policy).          *)
(* A dataset has one or two genomes of one to three genes, so that a       *)
(* genome can have several, one or no position that may be masked.         *)
(***************************************************************************)
DatasetSizes == 1 .. 2
GenomeLengths == 1 .. 3

\* the datasets of the given sizes whose genomes have the given lengths
DatasetChoices(sizes, lengths) ==
    UNION {[1 .. n -> UNION {[1 .. m -> Categories] : m \in lengths}] : n \in sizes}

\* random.randint(a, b) draws from a .. b and raises ValueError when a > b
randint(a, b) == a .. b

\* [i for i, x in enumerate(s) if x == func]
occurence(s, target) == {k \in 0 .. (Len(s) - 1) : s[k + 1] = target}

\* the membership test that looks at the first gene only
contains_first(s, target) == s # <<>> /\ s[1] = target

\* func in sequences[i]
contains(s, target) == \E k \in 1 .. Len(s) : s[k] = target

InitDataset ==
    /\ pc \in {"generate_dataset", "generate_dataset_unbiased_category"}
    /\ sequences \in DatasetChoices(DatasetSizes, GenomeLengths)
    /\ all_features =
           [g \in 1 .. Len(sequences) |-> FeatureList(Len(sequences[g]), g)]
    /\ i = 0 /\ idx = 0 /\ func = 0
    /\ X = <<>> /\ y = <<>> /\ masked_func = <<>> /\ genome_included = <<>>
    /\ ExampleIdle /\ GenomeIdle

\* generate_dataset, line 495: enter the loop
UniformStart ==
    /\ pc = "generate_dataset"
    /\ pc' = "dataset_for"
    /\ UNCHANGED <<X, y, idx, exampleVars, datasetVars, genomeVars>>

\* the draw of line 498 with the first gene included
UniformDraw_IncludeEnds ==
    /\ pc = "dataset_for"
    /\ i < Len(sequences)
    /\ idx' \in randint(0, Len(sequences[i + 1]) - 1)
    /\ pc' = "dataset_while"
    /\ UNCHANGED <<X, y, sequence, features, padded_sequence, f, datasetVars, genomeVars>>

\* line 498: idx = random.randint(1, len(sequences[i]) - 1)
UniformDraw ==
    /\ pc = "dataset_for"
    /\ i < Len(sequences)
    /\ IF randint(1, Len(sequences[i + 1]) - 1) = {}
       THEN /\ pc' = "dataset_raised"
            /\ idx' = idx
       ELSE /\ idx' \in randint(1, Len(sequences[i + 1]) - 1)
            /\ pc' = "dataset_while"
    /\ UNCHANGED <<X, y, sequence, features, padded_sequence, f, datasetVars, genomeVars>>

\* lines 501-502: the body of the while loop, a new draw
UniformResample ==
    /\ pc = "dataset_while"
    /\ sequences[i + 1][idx + 1] = 0
    /\ idx' \in randint(1, Len(sequences[i + 1]) - 1)
    /\ UNCHANGED <<pc, X, y, sequence, features, padded_sequence, f, datasetVars, genomeVars>>

\* lines 504-509: the while loop is left, the example is built and stored
UniformExample ==
    /\ pc = "dataset_while"
    /\ sequences[i + 1][idx + 1] # 0
    /\ IF generate_example_raises(sequences[i + 1], all_features[i + 1], MaxLength, idx)
       THEN /\ pc' = "dataset_raised"
            /\ UNCHANGED <<X, y, masked_func, i>>
       ELSE LET this == generate_example(sequences[i + 1], all_features[i + 1],
                                         NumFunctions, n_features, MaxLength, idx)
            IN  /\ X' = Append(X, this.X)
                /\ y' = Append(y, this.y)
                /\ masked_func' = Append(masked_func, sequences[i + 1][idx + 1])
                /\ i' = i + 1
                /\ pc' = "dataset_for"
    /\ UNCHANGED <<idx, exampleVars, sequences, all_features, func, genome_included, genomeVars>>

\* lines 511-514: the loop is over, the lists are stacked and returned
UniformReturn ==
    /\ pc = "dataset_for"
    /\ i = Len(sequences)
    /\ pc' = "dataset_returned"
    /\ UNCHANGED <<X, y, idx, exampleVars, datasetVars, genomeVars>>

\* generate_dataset_unbiased_category, line 448: the first target category
BalancedStart ==
    /\ pc = "generate_dataset_unbiased_category"
    /\ func' \in randint(1, NumFunctions - 1)
    /\ pc' = "unbiased_for"
    /\ UNCHANGED <<X, y, idx, exampleVars, sequences, all_features, i, masked_func,
                   genome_included, genomeVars>>

\* the loop body with a new target drawn for every genome, included or not
BalancedStep_RedrawAlways ==
    /\ pc = "unbiased_for"
    /\ i < Len(sequences)
    /\ IF contains(sequences[i + 1], func)
       THEN \E choice \in occurence(sequences[i + 1], func) :
                LET this == generate_example(sequences[i + 1], all_features[i + 1],
                                             NumFunctions, n_features, MaxLength,
                                             choice)
                IN  /\ idx' = choice
                    /\ X' = Append(X, this.X)
                    /\ y' = Append(y, this.y)
                    /\ masked_func' = Append(masked_func, func)
                    /\ genome_included' = Append(genome_included, 1)
       ELSE /\ genome_included' = Append(genome_included, 0)
            /\ UNCHANGED <<X, y, idx, masked_func>>
    /\ func' \in randint(1, NumFunctions - 1)
    /\ i' = i + 1
    /\ UNCHANGED <<pc, exampleVars, sequences, all_features, genomeVars>>

\* the loop body with every genome marked 1 in the inclusion list
BalancedStep_MarkAll ==
    /\ pc = "unbiased_for"
    /\ i < Len(sequences)
    /\ IF contains(sequences[i + 1], func)
       THEN \E choice \in occurence(sequences[i + 1], func) :
                LET this == generate_example(sequences[i + 1], all_features[i + 1],
                                             NumFunctions, n_features, MaxLength,
                                             choice)
                IN  /\ idx' = choice
                    /\ X' = Append(X, this.X)
                    /\ y' = Append(y, this.y)
                    /\ masked_func' = Append(masked_func, func)
                    /\ func' \in randint(1, NumFunctions - 1)
       ELSE UNCHANGED <<X, y, idx, masked_func, func>>
    /\ genome_included' = Append(genome_included, 1)
    /\ i' = i + 1
    /\ UNCHANGED <<pc, exampleVars, sequences, all_features, genomeVars>>

\* lines 450-470: one iteration of the loop over the genomes
BalancedStep ==
    /\ pc = "unbiased_for"
    /\ i < Len(sequences)
    /\ IF contains(sequences[i + 1], func)
       THEN \E choice \in occurence(sequences[i + 1], func) :
                IF generate_example_raises(sequences[i + 1], all_features[i + 1],
                                           MaxLength, choice)
                THEN /\ pc' = "unbiased_raised"
                     /\ idx' = choice
                     /\ UNCHANGED <<X, y, masked_func, func, genome_included, i>>
                ELSE LET this == generate_example(sequences[i + 1], all_features[i + 1],
                                                  NumFunctions, n_features, MaxLength,
                                                  choice)
                     IN  /\ idx' = choice
                         /\ X' = Append(X, this.X)
                         /\ y' = Append(y, this.y)
                         /\ masked_func' = Append(masked_func, func)
                         /\ func' \in randint(1, NumFunctions - 1)
                         /\ genome_included' = Append(genome_included, 1)
                         /\ i' = i + 1
                         /\ pc' = pc
       ELSE /\ genome_included' = Append(genome_included, 0)
            /\ i' = i + 1
            /\ UNCHANGED <<pc, X, y, idx, masked_func, func>>
    /\ UNCHANGED exampleVars
    /\ UNCHANGED <<sequences, all_features, genomeVars>>

\* lines 472-475: the loop is over, the lists are stacked and returned
BalancedReturn ==
    /\ pc = "unbiased_for"
    /\ i = Len(sequences)
    /\ pc' = "unbiased_returned"
    /\ UNCHANGED <<X, y, idx, exampleVars, datasetVars, genomeVars>>

NextDataset ==
    \/ UniformStart \/ UniformDraw \/ UniformResample \/ UniformExample \/ UniformReturn
    \/ BalancedStart \/ BalancedStep \/ BalancedReturn

SpecDataset == InitDataset /\ [][NextDataset]_vars

\* generate_example called on its own or from the two dataset functions
InitSampler == InitExample \/ InitDataset

NextSampler == NextExample \/ NextDataset

SpecSampler == InitSampler /\ [][NextSampler]_vars

(***************************************************************************)
(* Genomes and dicts.  A genome is a record with the fields length,        *)
(* phrogs (gene labels), protein_id, sense and position (a list of         *)
(* <<start, end>>).  A dict is the list of its entries [key, value] in     *)
(* insertion order, with pairwise different keys.                          *)
(***************************************************************************)
\* len(categories_present) >= 4
FilterThreshold == 4
\* the category 'integration and excision'
integrase == 1
\* what dict.get returns for a key the dict does not hold
None == 0 - 1

\* genes of a genome handed to generate_data
MaxFilterGenes == 5
\* genes of a genome handed to flip_genomes
MaxFlipGenes == 3
\* genomes of a dict handed to derep_trainingdata
MaxDerepGenomes == 2

\* the labels of the encoder: label 0 .. FilterThreshold + 1 stands for the
\* category of the same number, the last label for category 0 again
Vocabulary == 0 .. (FilterThreshold + 2)

PhrogEncoding == [l \in Vocabulary |-> IF l = FilterThreshold + 2 THEN 0 ELSE l]

\* [phrog_encoding.get(i) for i in genome.get('phrogs')]
encode(enc, phrogs) ==
    [j \in 1 .. Len(phrogs) |-> IF phrogs[j] \in DOMAIN enc THEN enc[phrogs[j]] ELSE None]

\* list(d.keys())
keys(d) == [j \in 1 .. Len(d) |-> d[j].key]

\* list(d.values())
values(d) == [j \in 1 .. Len(d) |-> d[j].value]

has_key(d, k) == \E j \in 1 .. Len(d) : d[j].key = k

\* d.get(k) for a dict given as a list of entries
dict_get(d, k) ==
    IF has_key(d, k) THEN d[CHOOSE j \in 1 .. Len(d) : d[j].key = k].value ELSE None

\* d[k] = v that leaves the value of a key already there
dict_set_keep_first(d, k, v) ==
    IF has_key(d, k) THEN d ELSE Append(d, [key |-> k, value |-> v])

\* d[k] = v: a new key goes last, a key already there keeps its place
dict_set(d, k, v) ==
    IF has_key(d, k)
    THEN [j \in 1 .. Len(d) |-> IF d[j].key = k THEN [key |-> k, value |-> v] ELSE d[j]]
    ELSE Append(d, [key |-> k, value |-> v])

\* dict(zip(ks, vs)), from entry j on
RECURSIVE dict_zip_from(_, _, _, _)
dict_zip_from(d, ks, vs, j) ==
    IF j > Len(ks) \/ j > Len(vs) THEN d
    ELSE dict_zip_from(dict_set(d, ks[j], vs[j]), ks, vs, j + 1)

\* dict(zip(ks, vs))
dict_zip(ks, vs) == dict_zip_from(<<>>, ks, vs, 1)

\* a genome with the given labels and strands, its genes of 5 bases every
\* 10 bases and its proteins numbered in gene order
PlainGenome(phrogs, sense) ==
    [length     |-> 10 * Len(phrogs),
     phrogs     |-> phrogs,
     protein_id |-> [j \in 1 .. Len(phrogs) |-> j],
     sense      |-> sense,
     position   |-> [j \in 1 .. Len(phrogs) |-> <<10 * (j - 1), 10 * (j - 1) + 5>>]]

\* the dict whose keys 1, 2, ... hold the genomes of a list
AsDict(gs) == [j \in 1 .. Len(gs) |-> [key |-> j, value |-> gs[j]]]

(***************************************************************************)
(* generate_data: the filter (lines 41-58), the report (60-61) and the     *)
(* dereplication of the filtered dict (64).  phrog_encoding is a global of *)
(* the module there.                                                       *)
(***************************************************************************)
\* the filter with the marker looked for anywhere in the genome
marker_at_end_anywhere(categories) ==
    \E j \in 1 .. Len(categories) : categories[j] = integrase

\* categories[0] == 1 or categories[-1] == 1
marker_at_end(categories) ==
    categories[1] = integrase \/ categories[Len(categories)] = integrase

\* len(categories_present) >= 4, categories_present being set(categories)
\* without 0
enough_categories(categories) ==
    Cardinality({categories[j] : j \in 1 .. Len(categories)} \ {0}) >= FilterThreshold

\* the genomes of threshold genes that hold the categories 1 .. threshold
\* once each, and the same with the last gene of unknown function
FilterPool ==
    LET perms == {g \in [1 .. FilterThreshold -> 1 .. FilterThreshold] :
                     \A a, b \in 1 .. FilterThreshold : g[a] = g[b] => a = b}
    IN  perms \cup {[g EXCEPT ![FilterThreshold] = 0] : g \in perms}

\* one genome of at most n genes of any labels, or two genomes of the pool
FilterChoices(n) ==
    {<<g>> : g \in SeqsOf(Vocabulary, 1, n)}
        \cup {<<g, h>> : g \in FilterPool, h \in FilterPool}

InitFilter ==
    /\ pc = "generate_data"
    /\ phrog_encoding = PhrogEncoding
    /\ \E gs \in FilterChoices(MaxFilterGenes) :
           genomes = AsDict([j \in 1 .. Len(gs) |->
                                PlainGenome(gs[j], Repeat("+", Len(gs[j])))])
    /\ i = 0 /\ included = 0 /\ not_included = 0
    /\ data = <<>> /\ data_derep = <<>> /\ training_data = <<>>
    /\ X = <<>> /\ y = <<>> /\ idx = 0
    /\ sequences = <<>> /\ all_features = <<>> /\ func = 0
    /\ masked_func = <<>> /\ genome_included = <<>>
    /\ ExampleIdle /\ FormatIdle /\ ConfigIdle /\ StatsIdle

filterFrame == <<X, y, idx, exampleVars, sequences, all_features, func, masked_func,
                 genome_included, genomes, training_data, phrog_encoding, formatVars,
                 configVars, statsVars>>

\* lines 41-58: one iteration of the loop over the genomes
FilterGenome ==
    /\ pc = "generate_data"
    /\ i < Len(genomes)
    /\ LET g == genomes[i + 1].key
           this_genome == genomes[i + 1].value
           categories == encode(phrog_encoding, this_genome.phrogs)
       IN  IF enough_categories(categories)
           THEN IF marker_at_end(categories)
                THEN /\ included' = included + 1
                     /\ data' = dict_set(data, g, this_genome)
                     /\ UNCHANGED not_included
                ELSE /\ not_included' = not_included + 1
                     /\ UNCHANGED <<included, data>>
           ELSE UNCHANGED <<included, not_included, data>>
    /\ i' = i + 1
    /\ UNCHANGED <<pc, data_derep, filterFrame>>

\* lines 60-61: the two counters are printed
FilterReport ==
    /\ pc = "generate_data"
    /\ i = Len(genomes)
    /\ pc' = "generate_data_report"
    /\ UNCHANGED <<i, included, not_included, data, data_derep, filterFrame>>

(***************************************************************************)
(* derep_trainingdata.  A str is the list of its characters.               *)
(***************************************************************************)
Digit(d) == <<"0", "1", "2", "3", "4", "5", "6", "7", "8", "9">>[d + 1]

\* str(j) of an int j >= 0, or of None
RECURSIVE str(_)
str(j) ==
    IF j = None THEN <<"N", "o", "n", "e">>
    ELSE IF j < 10 THEN <<Digit(j)>>
    ELSE str(j \div 10) \o <<Digit(j % 10)>>

\* ''.join(strs), from element j on
RECURSIVE join_from(_, _)
join_from(strs, j) ==
    IF j > Len(strs) THEN <<>> ELSE strs[j] \o join_from(strs, j + 1)

\* ''.join(strs)
join(strs) == join_from(strs, 1)

\* the hash with the strands left out
training_hash_no_sense(genome, enc) ==
    LET encoding == encode(enc, genome.phrogs)
    IN  join([j \in 1 .. Len(encoding) |-> str(encoding[j])])

\* training_sense[i] + training_str[i] (lines 118-123)
training_hash(genome, enc) ==
    LET encoding == encode(enc, genome.phrogs)
        training_str == join([j \in 1 .. Len(encoding) |-> str(encoding[j])])
        training_sense == join([j \in 1 .. Len(genome.sense) |-> <<genome.sense[j]>>])
    IN  training_sense \o training_str

\* derep_trainingdata(training_data, phrog_encoding)
derep_trainingdata(td, enc) ==
    LET training_keys == keys(td)
        hashes == [j \in 1 .. Len(td) |-> training_hash(td[j].value, enc)]
        dedup_keys == values(dict_zip(hashes, training_keys))
    IN  dict_zip(dedup_keys, [j \in 1 .. Len(dedup_keys) |-> dict_get(td, dedup_keys[j])])

\* line 64 of generate_data: the filtered dict is dereplicated and returned
FilterDerep ==
    /\ pc = "generate_data_report"
    /\ data_derep' = derep_trainingdata(data, phrog_encoding)
    /\ pc' = "generate_data_returned"
    /\ UNCHANGED <<i, included, not_included, data, filterFrame>>

SpecFilter ==
    InitFilter /\ [][FilterGenome \/ FilterReport \/ FilterDerep]_vars

\* labels of the genomes handed to derep_trainingdata: the two labels of
\* category 0 and the label of category 1
DerepLabels == {0, 1, FilterThreshold + 2}
DerepLengths == 1 .. 2

\* the genomes handed to derep_trainingdata
DerepGenomes ==
    UNION {{PlainGenome(p, s) : p \in [1 .. n -> DerepLabels], s \in [1 .. n -> {"+", "-"}]} :
               n \in DerepLengths}

InitDerep ==
    /\ pc = "derep_trainingdata"
    /\ phrog_encoding = PhrogEncoding
    /\ \E gs \in SeqsOf(DerepGenomes, 1, MaxDerepGenomes) : training_data = AsDict(gs)
    /\ i = 0 /\ included = 0 /\ not_included = 0
    /\ data = <<>> /\ data_derep = <<>> /\ genomes = <<>>
    /\ X = <<>> /\ y = <<>> /\ idx = 0
    /\ sequences = <<>> /\ all_features = <<>> /\ func = 0
    /\ masked_func = <<>> /\ genome_included = <<>>
    /\ ExampleIdle /\ FormatIdle /\ ConfigIdle /\ StatsIdle

\* lines 116-128
Derep ==
    /\ pc = "derep_trainingdata"
    /\ data_derep' = derep_trainingdata(training_data, phrog_encoding)
    /\ pc' = "derep_returned"
    /\ UNCHANGED <<i, included, not_included, data, filterFrame>>

SpecDerep == InitDerep /\ [][Derep]_vars

\* the dict whose keys, in insertion order, are ks and hold the genomes gs
KeyedDict(ks, gs) == [j \in 1 .. Len(gs) |-> [key |-> ks[j], value |-> gs[j]]]

\* dicts of up to MaxDerepGenomes + 1 genomes of one gene, inserted in
\* ascending or in descending order of their keys
InitDerepOrder ==
    /\ pc = "derep_trainingdata"
    /\ phrog_encoding = PhrogEncoding
    /\ \E gs \in SeqsOf({PlainGenome(<<p>>, <<s>>) : p \in DerepLabels, s \in {"+", "-"}},
                        1, MaxDerepGenomes + 1) :
           \/ training_data = KeyedDict([j \in 1 .. Len(gs) |-> j], gs)
           \/ training_data = KeyedDict([j \in 1 .. Len(gs) |-> Len(gs) + 1 - j], gs)
    /\ i = 0 /\ included = 0 /\ not_included = 0
    /\ data = <<>> /\ data_derep = <<>> /\ genomes = <<>>
    /\ X = <<>> /\ y = <<>> /\ idx = 0
    /\ sequences = <<>> /\ all_features = <<>> /\ func = 0
    /\ masked_func = <<>> /\ genome_included = <<>>
    /\ ExampleIdle /\ FormatIdle /\ ConfigIdle /\ StatsIdle

SpecDerepOrder == InitDerepOrder /\ [][Derep]_vars

\* an encoding with category codes of one and of two digits
WideEncoding == [l \in {0, 1, 10, 11} |-> l]

\* the genomes of one or two genes over the labels of the wide encoding
WideGenomes ==
    UNION {{PlainGenome(p, s) : p \in [1 .. n -> DOMAIN WideEncoding],
                                s \in [1 .. n -> {"+", "-"}]} : n \in DerepLengths}

\* derep_trainingdata called with the wide encoding on one or two genomes
InitDerepWide ==
    /\ pc = "derep_trainingdata"
    /\ phrog_encoding = WideEncoding
    /\ \E gs \in {<<g>> : g \in WideGenomes}
                    \cup {<<g, h>> : g \in WideGenomes, h \in WideGenomes} :
           training_data = AsDict(gs)
    /\ i = 0 /\ included = 0 /\ not_included = 0
    /\ data = <<>> /\ data_derep = <<>> /\ genomes = <<>>
    /\ X = <<>> /\ y = <<>> /\ idx = 0
    /\ sequences = <<>> /\ all_features = <<>> /\ func = 0
    /\ masked_func = <<>> /\ genome_included = <<>>
    /\ ExampleIdle /\ FormatIdle /\ ConfigIdle /\ StatsIdle

SpecDerepWide == InitDerepWide /\ [][Derep]_vars

(***************************************************************************)
(* flip_genomes                                                            *)
(***************************************************************************)
\* np.abs
abs(x) == IF x < 0 THEN 0 - x ELSE x

\* the genome in the reverse order with the strands left as they are
reversed_genome_same_strand(genome) ==
    LET length == genome.length
        rev_position == Reverse(genome.position)
    IN  [length     |-> genome.length,
         phrogs     |-> Reverse(genome.phrogs),
         protein_id |-> Reverse(genome.protein_id),
         sense      |-> Reverse(genome.sense),
         position   |-> [j \in 1 .. Len(rev_position) |->
                            <<abs(rev_position[j][2] - length),
                              abs(rev_position[j][1] - length)>>]]

\* the genome in the reverse order with the spans reflected about the end of
\* the last gene instead of the length of the genome
reversed_genome_last_end(genome) ==
    LET length == genome.position[Len(genome.position)][2]
        rev_position == Reverse(genome.position)
        rev_sense == Reverse(genome.sense)
    IN  [length     |-> genome.length,
         phrogs     |-> Reverse(genome.phrogs),
         protein_id |-> Reverse(genome.protein_id),
         sense      |-> [j \in 1 .. Len(rev_sense) |->
                            IF rev_sense[j] = "+" THEN "-" ELSE "+"],
         position   |-> [j \in 1 .. Len(rev_position) |->
                            <<abs(rev_position[j][2] - length),
                              abs(rev_position[j][1] - length)>>]]

\* lines 152-162: the genome in the reverse order
reversed_genome(genome) ==
    LET length == genome.length
        rev_position == Reverse(genome.position)
        rev_sense == Reverse(genome.sense)
    IN  [length     |-> genome.length,
         phrogs     |-> Reverse(genome.phrogs),
         protein_id |-> Reverse(genome.protein_id),
         sense      |-> [j \in 1 .. Len(rev_sense) |->
                            IF rev_sense[j] = "+" THEN "-" ELSE "+"],
         position   |-> [j \in 1 .. Len(rev_position) |->
                            <<abs(rev_position[j][2] - length),
                              abs(rev_position[j][1] - length)>>]]

\* lines 146-165: the body of the loop of flip_genomes
flip_genome(genome, enc) ==
    LET encoding == encode(enc, genome.phrogs)
    IN  IF encoding[Len(encoding)] = integrase
        THEN reversed_genome(genome)
        ELSE genome

\* flip_genomes(training_data, phrog_encoding)
flip_genomes(td, enc) ==
    dict_zip(keys(td), [j \in 1 .. Len(td) |-> flip_genome(td[j].value, enc)])

\* the gap left after gene k of a genome handed to flip_genomes: genes
\* overlap by one base or lie two bases apart
GapAfter(k) == IF k % 2 = 1 THEN 2 ELSE 0 - 1

\* the spans of genes of the given widths, from gene k on, gene k starting
\* at start
RECURSIVE PositionsFrom(_, _, _)
PositionsFrom(start, widths, k) ==
    IF k > Len(widths) THEN <<>>
    ELSE <<<<start, start + widths[k]>>>>
             \o PositionsFrom(start + widths[k] + GapAfter(k), widths, k + 1)

\* labels of the genomes handed to flip_genomes
FlipLabels == {1, 2}

\* the genomes of n genes handed to flip_genomes: starts do not decrease
\* and no gene ends after the genome
FlipGenomesOf(n) ==
    {LET position == PositionsFrom(offset, widths, 1)
     IN  [length     |-> position[n][2] + tail,
          phrogs     |-> p,
          protein_id |-> [j \in 1 .. n |-> j],
          sense      |-> s,
          position   |-> position] :
        p \in [1 .. n -> FlipLabels], s \in [1 .. n -> {"+", "-"}],
        widths \in [1 .. n -> 1 .. 2], offset \in 0 .. 1, tail \in 0 .. 1}


\* the second genome of a dict of two genomes
FlipSecond ==
    {PlainGenome(<<2, 1>>, <<"+", "-">>), PlainGenome(<<1, 2>>, <<"-", "-">>)}

\* a genome of 50 bases with three genes of 10 bases, the boundary marker
\* last
ScenarioGenome ==
    [length     |-> 50,
     phrogs     |-> <<2, 2, 1>>,
     protein_id |-> <<1, 2, 3>>,
     sense      |-> <<"+", "-", "-">>,
     position   |-> <<<<0, 10>>, <<20, 30>>, <<40, 50>>>>]

\* the dicts handed to flip_genomes: one genome of at most n genes, alone
\* or followed by a second genome
FlipChoices(n) ==
    LET first == UNION {FlipGenomesOf(m) : m \in 1 .. n} \cup {ScenarioGenome}
    IN  {<<g>> : g \in first} \cup {<<g, h>> : g \in first, h \in FlipSecond}

InitFlip ==
    /\ pc = "flip_genomes"
    /\ phrog_encoding = PhrogEncoding
    /\ \E gs \in FlipChoices(MaxFlipGenes) : training_data = AsDict(gs)
    /\ i = 0 /\ included = 0 /\ not_included = 0
    /\ data = <<>> /\ data_derep = <<>> /\ genomes = <<>>
    /\ X = <<>> /\ y = <<>> /\ idx = 0
    /\ sequences = <<>> /\ all_features = <<>> /\ func = 0
    /\ masked_func = <<>> /\ genome_included = <<>>
    /\ ExampleIdle /\ FormatIdle /\ ConfigIdle /\ StatsIdle

\* lines 144-165: one iteration of the loop over the keys
FlipGenome ==
    /\ pc = "flip_genomes"
    /\ i < Len(training_data)
    /\ LET key == keys(training_data)[i + 1]
           genome == dict_get(training_data, key)
       IN  data' = dict_set(data, key, flip_genome(genome, phrog_encoding))
    /\ i' = i + 1
    /\ UNCHANGED <<pc, included, not_included, data_derep, filterFrame>>

\* line 167
FlipReturn ==
    /\ pc = "flip_genomes"
    /\ i = Len(training_data)
    /\ pc' = "flip_returned"
    /\ UNCHANGED <<i, included, not_included, data, data_derep, filterFrame>>

SpecFlip ==
    InitFlip /\ [][FlipGenome \/ FlipReturn]_vars

(***************************************************************************)
(* The reversal of lines 152-162 applied to a genome and then to its own   *)
(* result.                                                                 *)
(***************************************************************************)
InitReverse ==
    /\ pc = "reverse_first"
    /\ phrog_encoding = PhrogEncoding
    /\ \E m \in 1 .. MaxFlipGenes :
           \E g \in FlipGenomesOf(m) \cup {ScenarioGenome} :
               training_data = AsDict(<<g>>)
    /\ i = 0 /\ included = 0 /\ not_included = 0
    /\ data = <<>> /\ data_derep = <<>> /\ genomes = <<>>
    /\ X = <<>> /\ y = <<>> /\ idx = 0
    /\ sequences = <<>> /\ all_features = <<>> /\ func = 0
    /\ masked_func = <<>> /\ genome_included = <<>>
    /\ ExampleIdle /\ FormatIdle /\ ConfigIdle /\ StatsIdle

\* lines 152-162 on the genome of the input dict
ReverseFirst ==
    /\ pc = "reverse_first"
    /\ LET key == keys(training_data)[1]
       IN  data' = dict_set(data, key, reversed_genome(dict_get(training_data, key)))
    /\ pc' = "reverse_second"
    /\ UNCHANGED <<i, included, not_included, data_derep, filterFrame>>

\* lines 152-162 on the genome reversed before
ReverseSecond ==
    /\ pc = "reverse_second"
    /\ LET key == keys(data)[1]
       IN  data' = dict_set(data, key, reversed_genome(dict_get(data, key)))
    /\ pc' = "reversed_twice"
    /\ UNCHANGED <<i, included, not_included, data_derep, filterFrame>>

SpecReverse ==
    InitReverse /\ [][ReverseFirst \/ ReverseSecond]_vars

(***************************************************************************)
(* format_data and format_data_flipped.  A quotient a / b of numpy is the  *)
(* pair of its numerator and its denominator: with b = 0 it is nan (a = 0) *)
(* or an infinity (a # 0), and numpy warns without raising.                *)
(***************************************************************************)
\* np.max of a list of integers that is not empty
np_max(s) ==
    CHOOSE m \in {s[j] : j \in 1 .. Len(s)} : \A j \in 1 .. Len(s) : s[j] <= m

\* a / b
divide(a, b) == [num |-> a, den |-> b]

\* l / m for a list l
divide_all(l, m) == [j \in 1 .. Len(l) |-> divide(l[j], m)]

\* [i[1] - i[0] for i in position]
gene_lengths(position) ==
    [j \in 1 .. Len(position) |-> position[j][2] - position[j][1]]

\* [2 if i == '+' else 1 for i in sense]
sense_codes(sense) == [j \in 1 .. Len(sense) |-> IF sense[j] = "+" THEN 2 ELSE 1]

\* [1 if i == '+' else 2 for i in sense]
sense_codes_flipped(sense) ==
    [j \in 1 .. Len(sense) |-> IF sense[j] = "+" THEN 1 ELSE 2]

\* the start offsets counted from 0
start_offsets_from_zero(position) ==
    [j \in 1 .. Len(position) |-> position[j][1] - position[1][1]]

\* [i[0] - position[0][0] + 1 for i in position]
start_offsets(position) ==
    [j \in 1 .. Len(position) |-> position[j][1] - position[1][1] + 1]

\* [length - i[1] + 1 for i in position]
start_offsets_flipped(position, length) ==
    [j \in 1 .. Len(position) |-> length - position[j][2] + 1]

\* [position[i+1][0] - position[i][1] for i in range(len(position) - 1)],
\* then insert(0, 0)
intergenic_distances(position) ==
    <<0>> \o [j \in 1 .. (Len(position) - 1) |-> position[j + 1][1] - position[j][2]]

\* lines 190-201: what one iteration of format_data appends to the lists
format_data_genome(genome, enc) ==
    [encoding   |-> encode(enc, genome.phrogs),
     length     |-> gene_lengths(genome.position),
     sense      |-> sense_codes(genome.sense),
     start      |-> start_offsets(genome.position),
     intergenic |-> intergenic_distances(genome.position)]

\* lines 253-285: what one iteration of format_data_flipped appends
format_data_flipped_genome(genome, enc) ==
    LET encoding == encode(enc, genome.phrogs)
    IN  IF encoding[Len(encoding)] = integrase
        THEN [encoding   |-> Reverse(encoding),
              length     |-> Reverse(gene_lengths(genome.position)),
              sense      |-> Reverse(sense_codes_flipped(genome.sense)),
              start      |-> Reverse(start_offsets_flipped(genome.position,
                                                           genome.length)),
              intergenic |-> intergenic_distances(genome.position)]
        ELSE format_data_genome(genome, enc)

\* encode_strand with the indicator of the code 2 first
encode_strand_forward_first(strand) ==
    <<[j \in 1 .. Len(strand) |-> IF strand[j] = 2 THEN 1 ELSE 0],
      [j \in 1 .. Len(strand) |-> IF strand[j] = 1 THEN 1 ELSE 0]>>

\* encode_strand(strand)
encode_strand(strand) ==
    <<[j \in 1 .. Len(strand) |-> IF strand[j] = 1 THEN 1 ELSE 0],
      [j \in 1 .. Len(strand) |-> IF strand[j] = 2 THEN 1 ELSE 0]>>

\* lines 211-212 and 296-297
scale_lengths(lengths) ==
    LET max_length == np_max([j \in 1 .. Len(lengths) |-> np_max(lengths[j])])
    IN  [j \in 1 .. Len(lengths) |-> divide_all(lengths[j], max_length)]

\* lines 215-216 and 300-301
scale_intergenic(intergenics) ==
    LET max_intergenic ==
            np_max([j \in 1 .. Len(intergenics) |->
                       np_max([k \in 1 .. Len(intergenics[j]) |->
                                  abs(intergenics[j][k])])])
    IN  [j \in 1 .. Len(intergenics) |-> divide_all(intergenics[j], max_intergenic)]

\* lines 219 and 304
scale_starts(starts) ==
    [j \in 1 .. Len(starts) |-> divide_all(starts[j], np_max(starts[j]))]

\* lines 222-228 and 307-313: the features of every genome
feature_lists(senses, lengths, starts, intergenics) ==
    [j \in 1 .. Len(senses) |->
        <<senses[j][1], senses[j][2], lengths[j], starts[j], intergenics[j]>>]

\* lines 210-228: the lists of the loop scaled and put together
scaled_features(senses, starts, lengths, intergenics) ==
    feature_lists([j \in 1 .. Len(senses) |-> encode_strand(senses[j])],
                  scale_lengths(lengths), scale_starts(starts),
                  scale_intergenic(intergenics))

\* format_data(training_data, phrog_encoding)
format_data(td, enc) ==
    LET this == [j \in 1 .. Len(td) |-> format_data_genome(td[j].value, enc)]
    IN  [training_encodings |-> [j \in 1 .. Len(td) |-> this[j].encoding],
         features |->
             scaled_features([j \in 1 .. Len(td) |-> this[j].sense],
                             [j \in 1 .. Len(td) |-> this[j].start],
                             [j \in 1 .. Len(td) |-> this[j].length],
                             [j \in 1 .. Len(td) |-> this[j].intergenic])]

\* select_features(data, 'all')
select_features(all) == all

\* a genome of two genes of no length, three bases apart
PointGenome ==
    [length     |-> 5,
     phrogs     |-> <<2, 1>>,
     protein_id |-> <<1, 2>>,
     sense      |-> <<"+", "-">>,
     position   |-> <<<<1, 1>>, <<4, 4>>>>]

\* genes of the first genome of a dict of two genomes
FormatPairLengths == 1 .. 3

\* the dicts handed to format_data and format_data_flipped: one genome of at
\* most n genes, or a genome followed by a second one
FormatChoices(n) ==
    {<<g>> : g \in UNION {FlipGenomesOf(m) : m \in 1 .. n}}
        \cup {<<PointGenome>>, <<ScenarioGenome>>}
        \cup {<<g, h>> : g \in UNION {FlipGenomesOf(m) : m \in FormatPairLengths},
                         h \in FlipSecond}

InitFormat ==
    /\ pc \in {"format_data", "format_data_flipped"}
    /\ phrog_encoding = PhrogEncoding
    /\ \E gs \in FormatChoices(MaxFlipGenes) : training_data = AsDict(gs)
    /\ i = 0 /\ included = 0 /\ not_included = 0
    /\ data = <<>> /\ data_derep = <<>> /\ genomes = <<>>
    /\ X = <<>> /\ y = <<>> /\ idx = 0
    /\ sequences = <<>> /\ all_features = <<>> /\ func = 0
    /\ masked_func = <<>> /\ genome_included = <<>>
    /\ ExampleIdle /\ FormatIdle /\ ConfigIdle /\ StatsIdle

formatFrame == <<exampleVars, sequences, func, masked_func, genome_included, genomes,
                 training_data, data, included, not_included, phrog_encoding,
                 data_derep, configVars, statsVars>>

\* lines 188-208: one iteration of the loop of format_data
FormatGenome ==
    /\ pc = "format_data"
    /\ i < Len(training_data)
    /\ LET key == keys(training_data)[i + 1]
           this == format_data_genome(dict_get(training_data, key), phrog_encoding)
       IN  /\ training_encodings' = Append(training_encodings, this.encoding)
           /\ sense_encodings' = Append(sense_encodings, this.sense)
           /\ start_encodings' = Append(start_encodings, this.start)
           /\ intergenic_encodings' = Append(intergenic_encodings, this.intergenic)
           /\ length_encodings' = Append(length_encodings, this.length)
    /\ i' = i + 1
    /\ UNCHANGED <<pc, X, y, idx, all_features, formatFrame>>

\* lines 251-293: one iteration of the loop of format_data_flipped
FormatFlippedGenome ==
    /\ pc = "format_data_flipped"
    /\ i < Len(training_data)
    /\ LET key == keys(training_data)[i + 1]
           this == format_data_flipped_genome(dict_get(training_data, key),
                                              phrog_encoding)
       IN  /\ training_encodings' = Append(training_encodings, this.encoding)
           /\ sense_encodings' = Append(sense_encodings, this.sense)
           /\ start_encodings' = Append(start_encodings, this.start)
           /\ intergenic_encodings' = Append(intergenic_encodings, this.intergenic)
           /\ length_encodings' = Append(length_encodings, this.length)
    /\ i' = i + 1
    /\ UNCHANGED <<pc, X, y, idx, all_features, formatFrame>>

\* lines 210-230: the lists are scaled, the features put together and returned
FormatScale ==
    /\ pc = "format_data"
    /\ i = Len(training_data)
    /\ length_encodings' = scale_lengths(length_encodings)
    /\ intergenic_encodings' = scale_intergenic(intergenic_encodings)
    /\ start_encodings' = scale_starts(start_encodings)
    /\ sense_encodings' =
           [j \in 1 .. Len(sense_encodings) |-> encode_strand(sense_encodings[j])]
    /\ all_features' = scaled_features(sense_encodings, start_encodings,
                                       length_encodings, intergenic_encodings)
    /\ pc' = "format_data_returned"
    /\ UNCHANGED <<i, X, y, idx, training_encodings, formatFrame>>

\* lines 295-315: the same for format_data_flipped
FormatFlippedScale ==
    /\ pc = "format_data_flipped"
    /\ i = Len(training_data)
    /\ length_encodings' = scale_lengths(length_encodings)
    /\ intergenic_encodings' = scale_intergenic(intergenic_encodings)
    /\ start_encodings' = scale_starts(start_encodings)
    /\ sense_encodings' =
           [j \in 1 .. Len(sense_encodings) |-> encode_strand(sense_encodings[j])]
    /\ all_features' = scaled_features(sense_encodings, start_encodings,
                                       length_encodings, intergenic_encodings)
    /\ pc' = "format_data_flipped_returned"
    /\ UNCHANGED <<i, X, y, idx, training_encodings, formatFrame>>

\* train_model: the encodings and the features selected ('all') of a genome
\* go to generate_example, masked at an index generate_dataset can draw
FormatExample ==
    /\ pc = "format_data_returned"
    /\ \E g \in 1 .. Len(training_encodings) :
           \E choice \in {k \in randint(1, Len(training_encodings[g]) - 1) :
                             training_encodings[g][k + 1] # 0} :
               /\ i' = g - 1
               /\ idx' = choice
               /\ IF generate_example_raises(training_encodings[g],
                                             select_features(all_features)[g],
                                             MaxLength, choice)
                  THEN /\ pc' = "format_example_raised"
                       /\ UNCHANGED <<X, y>>
                  ELSE LET this == generate_example(training_encodings[g],
                                                    select_features(all_features)[g],
                                                    NumFunctions, n_features,
                                                    MaxLength, choice)
                       IN  /\ X' = this.X
                           /\ y' = this.y
                           /\ pc' = "format_example_returned"
    /\ UNCHANGED <<all_features, formatVars, formatFrame>>

SpecFormat ==
    InitFormat /\ [][\/ FormatGenome \/ FormatScale \/ FormatExample
                     \/ FormatFlippedGenome \/ FormatFlippedScale]_vars

(***************************************************************************)
(* format_data on genomes with a label the encoder does not hold.          *)
(***************************************************************************)
\* the dicts of one genome of at most n genes, of labels of the encoder or of
\* the label FilterThreshold + 3, which is not a key of phrog_encoding
EncodeChoices(n) ==
    {<<PlainGenome(p, Repeat("+", Len(p)))>> :
        p \in SeqsOf(Vocabulary \cup {FilterThreshold + 3}, 1, n)}

InitEncode ==
    /\ pc = "format_data"
    /\ phrog_encoding = PhrogEncoding
    /\ \E gs \in EncodeChoices(MaxFlipGenes) : training_data = AsDict(gs)
    /\ i = 0 /\ included = 0 /\ not_included = 0
    /\ data = <<>> /\ data_derep = <<>> /\ genomes = <<>>
    /\ X = <<>> /\ y = <<>> /\ idx = 0
    /\ sequences = <<>> /\ all_features = <<>> /\ func = 0
    /\ masked_func = <<>> /\ genome_included = <<>>
    /\ ExampleIdle /\ FormatIdle /\ ConfigIdle /\ StatsIdle

SpecEncode ==
    InitEncode /\ [][FormatGenome \/ FormatScale]_vars

(***************************************************************************)
(* flip_genomes, format_data and format_data_flipped on a genome whose     *)
(* per-gene lists are not of the same length.                              *)
(***************************************************************************)
\* s[:-1]
DropLast(s) == SubSeq(s, 1, Len(s) - 1)

\* the genomes of n genes with one list a gene short
MismatchedGenomes(n) ==
    UNION {{[g EXCEPT !.phrogs = DropLast(g.phrogs)],
            [g EXCEPT !.protein_id = DropLast(g.protein_id)],
            [g EXCEPT !.sense = DropLast(g.sense)],
            [g EXCEPT !.position = DropLast(g.position)]} :
              g \in {PlainGenome(p, t) : p \in [1 .. n -> FlipLabels],
                                         t \in [1 .. n -> {"+", "-"}]}}

InitShape ==
    /\ pc \in {"flip_genomes", "format_data", "format_data_flipped"}
    /\ phrog_encoding = PhrogEncoding
    /\ \E n \in 2 .. MaxFlipGenes :
           \E g \in MismatchedGenomes(n) : training_data = AsDict(<<g>>)
    /\ i = 0 /\ included = 0 /\ not_included = 0
    /\ data = <<>> /\ data_derep = <<>> /\ genomes = <<>>
    /\ X = <<>> /\ y = <<>> /\ idx = 0
    /\ sequences = <<>> /\ all_features = <<>> /\ func = 0
    /\ masked_func = <<>> /\ genome_included = <<>>
    /\ ExampleIdle /\ FormatIdle /\ ConfigIdle /\ StatsIdle

SpecShape ==
    InitShape /\ [][\/ FlipGenome \/ FlipReturn
                    \/ FormatGenome \/ FormatScale
                    \/ FormatFlippedGenome \/ FormatFlippedScale]_vars

(***************************************************************************)
(* Construction: Model.__init__ with feature_check (train_model.py) and    *)
(* check_positive (generate_training_data.py).  A text is the list of its  *)
(* characters.                                                             *)
(***************************************************************************)
\* longest text handed to check_positive
MaxArgLength == 2

\* the names feature_check accepts
SupportedFeatures ==
    {"all", "strand", "none", "intergenic", "gene_length", "position",
     "orientation_count"}

\* feature_check raises its Exception
feature_check_raises(features_include) == features_include \notin SupportedFeatures

\* feature_check(features_include), when it returns
feature_check(features_include) == features_include

Digits == {"0", "1", "2", "3", "4", "5", "6", "7", "8", "9"}

\* the characters of a text after its sign
unsigned(text) == IF text # <<>> /\ text[1] \in {"-", "+"} THEN Tail(text) ELSE text

\* int(text) does not raise ValueError
int_ok(text) ==
    /\ unsigned(text) # <<>>
    /\ \A k \in 1 .. Len(unsigned(text)) : unsigned(text)[k] \in Digits

\* the number the first n of the given digits denote
RECURSIVE digits_value(_, _)
digits_value(digits, n) ==
    IF n = 0 THEN 0
    ELSE 10 * digits_value(digits, n - 1)
             + (CHOOSE d \in 0 .. 9 : Digit(d) = digits[n])

\* int(text)
int(text) ==
    IF text[1] = "-"
    THEN 0 - digits_value(unsigned(text), Len(unsigned(text)))
    ELSE digits_value(unsigned(text), Len(unsigned(text)))

InitConfig ==
    /\ \/ /\ pc = "Model.__init__"
          /\ arg \in [max_length : (0 - 1) .. MaxLength,
                       features_include : SupportedFeatures \cup {"gene_start", "everything"}]
       \/ /\ pc = "check_positive"
          /\ arg \in SeqsOf({"-", "0", "1", "2", "x"}, 1, MaxArgLength)
    /\ self = <<>> /\ int_value = 0
    /\ genomes = <<>> /\ training_data = <<>> /\ data = <<>>
    /\ included = 0 /\ not_included = 0
    /\ phrog_encoding = PhrogEncoding /\ data_derep = <<>>
    /\ X = <<>> /\ y = <<>> /\ idx = 0
    /\ ExampleIdle /\ DatasetIdle /\ FormatIdle /\ StatsIdle

configFrame == <<X, y, idx, exampleVars, datasetVars, genomes, training_data, data,
                 included, not_included, phrog_encoding, data_derep, formatVars,
                 statsVars>>

\* train_model.py lines 52-61: Model.__init__
ModelInit ==
    /\ pc = "Model.__init__"
    /\ IF feature_check_raises(arg.features_include)
       THEN /\ self' = [phrog_categories |-> phrog_encoding]
            /\ pc' = "Model_raised"
       ELSE /\ self' = [phrog_categories |-> phrog_encoding,
                        features_include |-> feature_check(arg.features_include),
                        num_functions    |->
                            Cardinality({phrog_encoding[l] : l \in DOMAIN phrog_encoding}),
                        max_length       |-> arg.max_length]
            /\ pc' = "Model_returned"
    /\ UNCHANGED <<arg, int_value, configFrame>>

\* generate_training_data.py lines 12-18: check_positive
CheckPositive ==
    /\ pc = "check_positive"
    /\ IF ~int_ok(arg)
       THEN /\ pc' = "check_positive_raised"
            /\ UNCHANGED int_value
       ELSE /\ int_value' = int(arg)
            /\ pc' = IF int_value' <= 0
                     THEN "check_positive_raised"
                     ELSE "check_positive_returned"
    /\ UNCHANGED <<self, arg, configFrame>>

SpecConfig ==
    InitConfig /\ [][ModelInit \/ CheckPositive]_vars

(***************************************************************************)
(* statistics.py: norm_scores and the loops of build_roc and               *)
(* per_category_auc over the categories.  A score is an integer weight, a  *)
(* normalised score the quotient of two weights.                           *)
(***************************************************************************)
\* s.sum()
RECURSIVE np_sum(_)
np_sum(s) == IF s = <<>> THEN 0 ELSE Head(s) + np_sum(Tail(s))

\* the normalisation with the unknown class kept
norm_scores_keep_unknown(scores) ==
    [r \in 1 .. Len(scores) |-> divide_all(scores[r], np_sum(scores[r]))]

\* scores_list[:, 1:] / scores_list[:, 1:].sum(axis=1)[:, np.newaxis]; the
\* tail of a row is row[1:]
norm_scores(scores) ==
    [r \in 1 .. Len(scores) |->
        divide_all(Tail(scores[r]), np_sum(Tail(scores[r])))]

\* list(normed_scores[include][:, c - 1]) + list(normed_scores[~include][:, c - 1])
category_column(normed, known, included_rows, c) ==
    LET rows == [r \in 1 .. Len(known) |-> r]
        In(r) == included_rows[r]
        Out(r) == ~included_rows[r]
    IN  [k \in 1 .. Len(SelectSeq(rows, In)) |-> normed[SelectSeq(rows, In)[k]][c]]
            \o [k \in 1 .. Len(SelectSeq(rows, Out)) |->
                   normed[SelectSeq(rows, Out)[k]][c]]

\* rows of scores over the categories whose known classes have a weight
ScoreRows ==
    {row \in [1 .. NumFunctions -> 0 .. 2] : np_sum(Tail(row)) > 0}

\* the scores of one instance, or of two with one class of the second ahead
\* of its other classes
InitScores ==
    /\ pc \in {"build_roc", "per_category_auc"}
    /\ scores_list \in
           {<<row>> : row \in ScoreRows}
               \cup {<<row, [c \in 1 .. NumFunctions |-> IF c = top THEN 2 ELSE 1]>> :
                         row \in ScoreRows, top \in 1 .. NumFunctions}
    /\ known_categories \in [1 .. Len(scores_list) -> 0 .. (NumFunctions - 1)]
    /\ normed_scores = <<>> /\ binary_scores = <<>>
    /\ known_category = <<>> /\ zero_row = 0
    /\ i = 0
    /\ included = 0 /\ not_included = 0
    /\ genomes = <<>> /\ training_data = <<>> /\ data = <<>>
    /\ phrog_encoding = PhrogEncoding /\ data_derep = <<>>
    /\ X = <<>> /\ y = <<>> /\ idx = 0
    /\ sequences = <<>> /\ all_features = <<>> /\ func = 0
    /\ masked_func = <<>> /\ genome_included = <<>>
    /\ ExampleIdle /\ FormatIdle /\ ConfigIdle

scoresFrame == <<X, y, idx, exampleVars, sequences, all_features, func, masked_func,
                 genome_included, genomes, training_data, data, included, not_included,
                 phrog_encoding, data_derep, formatVars, configVars, scores_list,
                 known_categories, known_category, zero_row>>

\* normed_scores = norm_scores(scores), and the loop starts at category 1
Normalise(fn) ==
    /\ pc = fn
    /\ normed_scores' = norm_scores(scores_list)
    /\ i' = 1
    /\ pc' = fn \o "_loop"
    /\ UNCHANGED <<binary_scores, scoresFrame>>

\* one iteration of the loop over the categories 1 .. len(category_names) - 1
Category(fn) ==
    /\ pc = fn \o "_loop"
    /\ i < NumFunctions
    /\ LET include == [r \in 1 .. Len(known_categories) |-> known_categories[r] = i]
       IN  binary_scores' = category_column(normed_scores, known_categories, include, i)
    /\ i' = i + 1
    /\ UNCHANGED <<pc, normed_scores, scoresFrame>>

\* the loop is over
Returned(fn) ==
    /\ pc = fn \o "_loop"
    /\ i = NumFunctions
    /\ pc' = fn \o "_returned"
    /\ UNCHANGED <<i, normed_scores, binary_scores, scoresFrame>>

SpecScores ==
    InitScores /\ [][\E fn \in {"build_roc", "per_category_auc"} :
                         Normalise(fn) \/ Category(fn) \/ Returned(fn)]_vars

(***************************************************************************)
(* statistics.py: get_masked and known_category, applied to what           *)
(* generate_example and the two dataset functions return.                  *)
(***************************************************************************)
\* np.all(encoding[:, :num_categories] == 0, axis=1), as the set of the rows
\* (0-based) where it is True
zero_rows(encoding, num_categories) ==
    {r \in 0 .. (Len(encoding) - 1) :
        \A c \in 1 .. num_categories : encoding[r + 1][c] = 0}

\* get_masked raises IndexError: np.where(...)[0] is empty
get_masked_raises(encoding, num_categories) ==
    zero_rows(encoding, num_categories) = {}

\* get_masked with np.any in the place of np.all
get_masked_any_zero(encoding, num_categories) ==
    CHOOSE r \in 0 .. (Len(encoding) - 1) :
        /\ \E c \in 1 .. num_categories : encoding[r + 1][c] = 0
        /\ \A q \in 0 .. (r - 1) : \A c \in 1 .. num_categories : encoding[q + 1][c] # 0

\* get_masked(encoding, num_categories): np.where(...)[0][0]
get_masked(encoding, num_categories) ==
    CHOOSE r \in zero_rows(encoding, num_categories) :
        \A q \in zero_rows(encoding, num_categories) : r <= q

\* np.argmax(v): the first index (0-based) of the largest value
np_argmax(v) ==
    CHOOSE k \in 0 .. (Len(v) - 1) :
        /\ \A j \in 1 .. Len(v) : v[j] <= v[k + 1]
        /\ \A j \in 1 .. k : v[j] < v[k + 1]

\* known_category(X_encodings, y_encodings, num_categories), when no call of
\* get_masked raises
known_categories_of(X_encodings, y_encodings, num_categories) ==
    [k \in 1 .. Len(X_encodings) |->
        np_argmax(y_encodings[k][get_masked(X_encodings[k], num_categories) + 1])]

\* get_masked on the X that generate_example returned
GetMasked ==
    /\ pc = "example_returned"
    /\ IF get_masked_raises(X, NumFunctions)
       THEN /\ pc' = "get_masked_raised"
            /\ UNCHANGED zero_row
       ELSE /\ zero_row' = get_masked(X, NumFunctions)
            /\ pc' = "get_masked_returned"
    /\ UNCHANGED <<X, y, idx, exampleVars, datasetVars, genomes, training_data, data,
                   included, not_included, phrog_encoding, data_derep, formatVars,
                   configVars, scores_list, normed_scores, known_categories,
                   binary_scores, known_category>>

\* statistics.py lines 29-48: known_category on the X and y that
\* generate_dataset or generate_dataset_unbiased_category returned
KnownCategory ==
    /\ pc \in {"dataset_returned", "unbiased_returned"}
    /\ IF \E k \in 1 .. Len(X) : get_masked_raises(X[k], NumFunctions)
       THEN /\ pc' = "known_category_raised"
            /\ UNCHANGED known_category
       ELSE /\ known_category' = known_categories_of(X, y, NumFunctions)
            /\ pc' = "known_category_returned"
    /\ UNCHANGED <<X, y, idx, exampleVars, datasetVars, genomes, training_data, data,
                   included, not_included, phrog_encoding, data_derep, formatVars,
                   configVars, scores_list, normed_scores, known_categories,
                   binary_scores, zero_row>>

SpecRecover ==
    InitSampler /\ [][NextSampler \/ GetMasked \/ KnownCategory]_vars

(***************************************************************************)
(* Properties of the masked examples.                                      *)
(***************************************************************************)
\* columns 0 .. num_functions - 1 of row r (0-based) of a tensor
CategoryBlock(M, r) == SubSeq(M[r + 1], 1, NumFunctions)

\* columns num_functions .. of row r (0-based) of an input tensor
FeatureBlock(M, r) == SubSeq(M[r + 1], NumFunctions + 1, Len(M[r + 1]))

\* generate_example has returned for a genome that fits in max_length
ExampleReturned == pc = "example_returned" /\ Len(sequence) <= MaxLength

\* C1: in the input tensor returned by generate_example for a genome of at
\* most max_length genes, row idx is the only row below len(sequence) whose
\* category block is all-zero, and every other such row holds the one-hot of
\* its category.
C1_ExactlyOneMaskedRow ==
    ExampleReturned =>
        \A r \in 0 .. (Len(sequence) - 1) :
            /\ (CategoryBlock(X, r) = ZeroVector(NumFunctions)) <=> (r = idx)
            /\ r # idx =>
                   CategoryBlock(X, r) = one_hot_vector(sequence[r + 1], NumFunctions)

\* a genome of three genes, with features, masked at an interior gene of a
\* known category
C1_Witness ==
    /\ ExampleReturned
    /\ Len(sequence) = 3 /\ idx = 1 /\ sequence[2] # 0
    /\ features # <<>>

LastIncluded ==
    CHOOSE g \in 1 .. Len(genome_included) :
        /\ genome_included[g] = 1
        /\ \A h \in (g + 1) .. Len(genome_included) : genome_included[h] = 0

\* generate_dataset has just stored the example of genome i (1-based)
UniformStored == pc \in {"dataset_for", "dataset_returned"} /\ i > 0

\* generate_dataset_unbiased_category has stored at least one example
BalancedStored ==
    /\ pc \in {"unbiased_for", "unbiased_returned"}
    /\ \E g \in 1 .. Len(genome_included) : genome_included[g] = 1

\* C3: the target tensor's row idx is the one-hot of the category the genome
\* has at idx, for generate_example on its own and for the example stored by
\* either dataset function, whose masked label is that category too.
C3_TargetIsTrueCategory ==
    /\ ExampleReturned =>
           y[idx + 1] = one_hot_vector(sequence[idx + 1], NumFunctions)
    /\ UniformStored =>
           /\ CategoryBlock(X[i], idx) = ZeroVector(NumFunctions)
           /\ y[i][idx + 1] = one_hot_vector(sequences[i][idx + 1], NumFunctions)
           /\ masked_func[i] = sequences[i][idx + 1]
    /\ BalancedStored =>
           LET g == LastIncluded
               k == Len(masked_func)
           IN  /\ CategoryBlock(X[k], idx) = ZeroVector(NumFunctions)
               /\ y[k][idx + 1] = one_hot_vector(sequences[g][idx + 1], NumFunctions)
               /\ masked_func[k] = sequences[g][idx + 1]

\* generate_dataset has returned two examples, the second one masked at
\* the last gene of a genome of three genes
C3_Witness ==
    /\ UniformStored /\ pc = "dataset_returned"
    /\ i = 2 /\ Len(sequences[2]) = 3 /\ idx = 2

Eligible(s) == {k \in 1 .. (Len(s) - 1) : s[k + 1] # 0}

\* C5: sampling under the uniform policy terminates for a genome without an
\* eligible position: generate_dataset does not raise, and it is never in
\* its resampling loop on such a genome (where every new draw stays in the
\* loop).
C5_SamplingTerminates ==
    /\ pc # "dataset_raised"
    /\ pc = "dataset_while" => Eligible(sequences[i + 1]) # {}

\* C6: one iteration of the balanced policy includes the genome iff the
\* target occurs in it; then the index masked holds the target, the label is
\* the target and a target in 1 .. num_functions - 1 is drawn; otherwise the
\* genome is marked 0, nothing is stored and the target is unchanged.
C6_BalancedStep ==
    [][(pc = "unbiased_for" /\ i < Len(sequences)) =>
          /\ pc' = "unbiased_for"
          /\ i' = i + 1
          /\ IF contains(sequences[i + 1], func)
             THEN /\ genome_included' = Append(genome_included, 1)
                  /\ idx' \in 0 .. (Len(sequences[i + 1]) - 1)
                  /\ sequences[i + 1][idx' + 1] = func
                  /\ masked_func' = Append(masked_func, func)
                  /\ Len(X') = Len(X) + 1 /\ Len(y') = Len(y) + 1
                  /\ CategoryBlock(X'[Len(X')], idx') = ZeroVector(NumFunctions)
                  /\ func' \in 1 .. (NumFunctions - 1)
             ELSE /\ genome_included' = Append(genome_included, 0)
                  /\ func' = func
                  /\ masked_func' = masked_func
                  /\ X' = X /\ y' = y]_vars

\* a genome without the target was excluded and the next one, holding the
\* same target, was included
C6_Witness ==
    /\ pc = "unbiased_returned"
    /\ genome_included = <<0, 1>>
    /\ ~contains(sequences[1], masked_func[1])

(***************************************************************************)
(* Properties of the filter, the dereplication and the orientation.        *)
(***************************************************************************)
\* the categories of a genome
CategoriesOf(genome) == encode(phrog_encoding, genome.phrogs)

\* number of distinct categories other than 0
DistinctKnown(c) == Cardinality({c[k] : k \in 1 .. Len(c)} \ {0})

\* the boundary marker is the category of the first or of the last gene
MarkerAtAnEnd(c) == c[1] = 1 \/ c[Len(c)] = 1

\* C7: every genome of the filtered dict has at least 4 distinct categories
\* other than 0 and the boundary marker (category 1) at its first or last
\* gene, and once the loop is over every genome of the input that meets both
\* conditions is in the filtered dict.
C7_FilterInvariant ==
    /\ pc \in {"generate_data", "generate_data_report", "generate_data_returned"} =>
           \A j \in 1 .. Len(data) :
               /\ DistinctKnown(CategoriesOf(data[j].value)) >= 4
               /\ MarkerAtAnEnd(CategoriesOf(data[j].value))
    /\ pc \in {"generate_data_report", "generate_data_returned"} =>
           \A j \in 1 .. Len(genomes) :
               (/\ DistinctKnown(CategoriesOf(genomes[j].value)) >= 4
                /\ MarkerAtAnEnd(CategoriesOf(genomes[j].value)))
                   => dict_get(data, genomes[j].key) = genomes[j].value

\* the genome of categories [3,1,5,0,2] has been examined and left out
C7_Witness ==
    /\ pc = "generate_data_report"
    /\ Len(genomes) = 1
    /\ CategoriesOf(genomes[1].value) = <<3, 1, 5, 0, 2>>
    /\ data = <<>>

\* the signature of a genome: its strands, then the decimal digits of its
\* categories, as one string
Signature(genome) ==
    LET c == CategoriesOf(genome)
    IN  genome.sense \o join([k \in 1 .. Len(c) |-> str(c[k])])

\* C8: the genomes returned by derep_trainingdata are genomes of the input,
\* their signatures differ pairwise, and every signature of the input is
\* the signature of exactly one of them.
C8_DerepSignatures ==
    pc = "derep_returned" =>
        /\ \A a \in 1 .. Len(data_derep) :
               \E j \in 1 .. Len(training_data) : data_derep[a] = training_data[j]
        /\ \A a, b \in 1 .. Len(data_derep) :
               a # b => Signature(data_derep[a].value) # Signature(data_derep[b].value)
        /\ \A j \in 1 .. Len(training_data) :
               Cardinality({a \in 1 .. Len(data_derep) :
                   Signature(data_derep[a].value) = Signature(training_data[j].value)}) = 1

\* two genomes of different labels and the same signature have collapsed
C8_Witness ==
    /\ pc = "derep_returned"
    /\ Len(training_data) = 2
    /\ training_data[1].value.phrogs # training_data[2].value.phrogs
    /\ Len(data_derep) = 1

\* C9: flip_genomes reverses a genome iff category 1 is at its last gene and
\* not at its first; every other genome is returned unchanged.
C9_FlipIffLastNotFirst ==
    pc = "flip_returned" =>
        \A j \in 1 .. Len(training_data) :
            LET genome == training_data[j].value
                c == CategoriesOf(genome)
            IN  dict_get(data, training_data[j].key) =
                    IF c[Len(c)] = 1 /\ c[1] # 1
                    THEN reversed_genome(genome)
                    ELSE genome

\* C10: flip_genomes applied to its own result returns that result, in
\* every field of every genome.
C10_FlipIdempotent ==
    pc = "flip_returned" => flip_genomes(data, phrog_encoding) = data

\* the distance between two coordinates
Distance(a, b) == IF a >= b THEN a - b ELSE b - a

\* the other strand
OtherStrand(c) == IF c = "+" THEN "-" ELSE "+"

\* C11: a genome that flip_genomes reverses (category 1 at its last gene)
\* comes out with the same length, its labels and protein ids in the reverse
\* order, every strand flipped in the reverse order and the span of gene k
\* from the end, (s, e), as span k, (|length - e|, |length - s|); its first
\* gene is the boundary marker.
C11_ReversedGenome ==
    pc = "flip_returned" =>
        \A j \in 1 .. Len(training_data) :
            LET genome == training_data[j].value
                out == dict_get(data, training_data[j].key)
                n == Len(genome.phrogs)
            IN  CategoriesOf(genome)[n] = 1 =>
                    /\ out.length = genome.length
                    /\ Len(out.phrogs) = n /\ Len(out.protein_id) = n
                    /\ Len(out.sense) = n /\ Len(out.position) = n
                    /\ CategoriesOf(out)[1] = 1
                    /\ \A k \in 1 .. n :
                           /\ out.phrogs[k] = genome.phrogs[n + 1 - k]
                           /\ out.protein_id[k] = genome.protein_id[n + 1 - k]
                           /\ out.sense[k] = OtherStrand(genome.sense[n + 1 - k])
                           /\ out.position[k] =
                                  <<Distance(genome.length, genome.position[n + 1 - k][2]),
                                    Distance(genome.length, genome.position[n + 1 - k][1])>>

\* the genome of length 50 with the spans (0,10), (20,30), (40,50) has been
\* reversed: the span (40,50) of its last gene is now the span (0,10) of its
\* first gene
C11_Witness ==
    /\ pc = "flip_returned"
    /\ Len(training_data) = 1
    /\ training_data[1].value.length = 50
    /\ training_data[1].value.position = <<<<0, 10>>, <<20, 30>>, <<40, 50>>>>
    /\ data[1].value.position[1] = <<0, 10>>
    /\ data[1].value.sense = <<"+", "+", "-">>

\* C12: the reflection and reversal of the spans applied twice to a genome
\* (its starts not decreasing, no gene ending after the genome) gives back
\* its list of spans.
C12_ReflectionRoundTrip ==
    pc = "reversed_twice" =>
        data[1].value.position = training_data[1].value.position

\* a genome of three genes that overlap or lie apart, the first one not at
\* the start of the genome and the last one not at its end, was reversed
\* twice
C12_Witness ==
    /\ pc = "reversed_twice"
    /\ Len(training_data[1].value.position) = 3
    /\ training_data[1].value.position[1][1] > 0
    /\ training_data[1].value.position[3][2] < training_data[1].value.length

(***************************************************************************)
(* Properties of the features.                                             *)
(***************************************************************************)
\* two quotients are the same number (or both are not numbers)
SameValue(v, w) ==
    IF v.den = 0 \/ w.den = 0
    THEN v.den = 0 /\ w.den = 0
    ELSE v.num * w.den = w.num * v.den

\* two lists of quotients hold the same numbers
SameValues(l, m) ==
    /\ Len(l) = Len(m)
    /\ \A k \in 1 .. Len(l) : SameValue(l[k], m[k])

\* C13: format_data_flipped returns the category sequences and the five
\* feature lists that format_data returns for the genomes flip_genomes
\* returns.
C13_FlippedMirrorsNormalizer ==
    pc = "format_data_flipped_returned" =>
        LET mirror == format_data(flip_genomes(training_data, phrog_encoding),
                                  phrog_encoding)
        IN  /\ training_encodings = mirror.training_encodings
            /\ \A g \in 1 .. Len(all_features) :
                   /\ all_features[g][1] = mirror.features[g][1]
                   /\ all_features[g][2] = mirror.features[g][2]
                   /\ \A k \in 3 .. 5 :
                          SameValues(all_features[g][k], mirror.features[g][k])

\* format_data or format_data_flipped has returned
FormatReturned ==
    pc \in {"format_data_returned", "format_data_flipped_returned",
            "format_example_returned"}

\* C14: in the features returned by format_data and format_data_flipped,
\* stated on the numerator and the denominator of every quotient: a gene
\* length lies in 0 .. the largest gene length of the dataset, a start offset
\* in 1 .. the largest start offset of its genome, and the magnitude of an
\* intergenic distance is at most the largest magnitude of the dataset.
C14_NormalizationBounds ==
    FormatReturned =>
        \A g \in 1 .. Len(all_features) :
            \A k \in 1 .. Len(training_encodings[g]) :
                /\ 0 <= all_features[g][3][k].num
                /\ all_features[g][3][k].num <= all_features[g][3][k].den
                /\ all_features[g][3][k].den = all_features[1][3][1].den
                /\ 0 < all_features[g][4][k].num
                /\ all_features[g][4][k].num <= all_features[g][4][k].den
                /\ all_features[g][4][k].den = all_features[g][4][1].den
                /\ all_features[g][5][k].num <= all_features[g][5][k].den
                /\ 0 - all_features[g][5][k].num <= all_features[g][5][k].den
                /\ all_features[g][5][k].den = all_features[1][5][1].den

\* format_data_flipped has returned the features of two genomes, the first
\* one reversed, with genes that overlap and genes of different lengths
C14_Witness ==
    /\ pc = "format_data_flipped_returned"
    /\ Len(training_data) = 2
    /\ CategoriesOf(training_data[1].value) = <<2, 2, 1>>
    /\ \E k \in 1 .. 3 : all_features[1][5][k].num < 0
    /\ \E k \in 1 .. 3 : all_features[1][3][k].num < all_features[1][3][k].den

\* C15: format_data and format_data_flipped never divide by zero: no value
\* of a length, start or intergenic feature they return has the denominator
\* 0 (a dataset of one-gene genomes, or of genes of no length, gets its
\* values as computed).
C15_NoDivisionByZero ==
    FormatReturned =>
        \A g \in 1 .. Len(all_features) :
            \A k \in 3 .. 5 :
                \A j \in 1 .. Len(all_features[g][k]) :
                    all_features[g][k][j].den # 0

\* the strands of genome g (1-based) in the order of the features returned
StrandsReturned(g) ==
    LET genome == training_data[g].value
    IN  IF pc = "format_data_flipped_returned"
           /\ CategoriesOf(genome)[Len(genome.phrogs)] = 1
        THEN [k \in 1 .. Len(genome.sense) |->
                 OtherStrand(genome.sense[Len(genome.sense) + 1 - k])]
        ELSE genome.sense

C17_KeepsFirstPositions ==
    /\ pc \in {"example_raised", "prediction_raised"} => Len(sequence) <= MaxLength
    /\ (pc \in {"example_returned", "prediction_returned"} /\ Len(sequence) > MaxLength) =>
           /\ padded_sequence = SubSeq(sequence, 1, MaxLength)
           /\ pc = "example_returned" =>
                  \A r \in 0 .. (MaxLength - 1) :
                      y[r + 1] = one_hot_vector(sequence[r + 1], NumFunctions)

\* C18: for a sequence of at most max_length genes, generate_prediction
\* returns one input tensor of max_length rows and n_features columns and no
\* target; the category block of the row of a gene is all-zero iff the gene
\* is unknown (category 0) and is the one-hot of its category otherwise.
C18_PredictionMasksUnknown ==
    (pc = "prediction_returned" /\ Len(sequence) <= MaxLength) =>
        /\ Len(X) = MaxLength
        /\ \A r \in 1 .. MaxLength : Len(X[r]) = n_features
        /\ y = <<>>
        /\ \A r \in 0 .. (Len(sequence) - 1) :
               /\ (CategoryBlock(X, r) = ZeroVector(NumFunctions)) <=> (sequence[r + 1] = 0)
               /\ sequence[r + 1] # 0 =>
                      CategoryBlock(X, r) = one_hot_vector(sequence[r + 1], NumFunctions)

\* a genome with two unknown genes and a known one, with features
C18_Witness ==
    /\ pc = "prediction_returned"
    /\ Len(sequence) = 3
    /\ Len(unknown_idx(sequence)) = 2
    /\ features # <<>>

(***************************************************************************)
(* Properties of the dataset assembly.                                     *)
(***************************************************************************)
\* M has the given numbers of rows and of columns
HasShape(M, rows, columns) ==
    /\ Len(M) = rows
    /\ \A r \in 1 .. rows : Len(M[r]) = columns

\* the target tensor t holds the categories of the genome s, gene by gene
Describes(t, s) ==
    \A r \in 1 .. Len(s) : t[r] = one_hot_vector(s[r], NumFunctions)

\* number of genomes marked 1 among the first g of the inclusion list
Rank(g) == Cardinality({h \in 1 .. g : genome_included[h] = 1})

\* C19: generate_dataset returns as many input tensors, target tensors and
\* masked labels as there are genomes, each of max_length rows, example k
\* built from genome k; generate_dataset_unbiased_category returns one 0/1
\* entry per genome, as many input tensors, target tensors and masked labels
\* as there are entries 1, and the examples in the order of the genomes
\* marked 1.
C19_Bookkeeping ==
    /\ pc = "dataset_returned" =>
           /\ Len(X) = Len(sequences)
           /\ Len(y) = Len(sequences)
           /\ Len(masked_func) = Len(sequences)
           /\ \A k \in 1 .. Len(sequences) :
                  /\ HasShape(X[k], MaxLength, n_features)
                  /\ HasShape(y[k], MaxLength, NumFunctions)
                  /\ Describes(y[k], sequences[k])
    /\ pc = "unbiased_returned" =>
           /\ Len(genome_included) = Len(sequences)
           /\ \A g \in 1 .. Len(sequences) : genome_included[g] \in {0, 1}
           /\ Len(X) = Rank(Len(sequences))
           /\ Len(y) = Rank(Len(sequences))
           /\ Len(masked_func) = Rank(Len(sequences))
           /\ \A k \in 1 .. Len(X) :
                  /\ HasShape(X[k], MaxLength, n_features)
                  /\ HasShape(y[k], MaxLength, NumFunctions)
           /\ \A g \in 1 .. Len(sequences) :
                  genome_included[g] = 1 =>
                      /\ Describes(y[Rank(g)], sequences[g])
                      /\ contains(sequences[g], masked_func[Rank(g)])

\* the balanced policy has returned the examples of two different genomes,
\* both included
C19_Witness ==
    /\ pc = "unbiased_returned"
    /\ genome_included = <<1, 1>>
    /\ sequences[1] # sequences[2]
    /\ Len(X) = 2

(***************************************************************************)
(* Properties of the category encoding.                                    *)
(***************************************************************************)
\* C20: the category sequence format_data builds holds a category for every
\* gene, never a missing value, and category 0 for every gene whose label
\* the encoder does not hold.
C20_EncodingTotal ==
    \A g \in 1 .. Len(training_encodings) :
        \A k \in 1 .. Len(training_encodings[g]) :
            /\ training_encodings[g][k] # None
            /\ training_data[g].value.phrogs[k] \notin DOMAIN phrog_encoding =>
                   training_encodings[g][k] = 0

(***************************************************************************)
(* Properties of the error handling.                                       *)
(***************************************************************************)
\* the per-gene lists of a genome have the same length
SameLengths(genome) ==
    /\ Len(genome.protein_id) = Len(genome.phrogs)
    /\ Len(genome.sense) = Len(genome.phrogs)
    /\ Len(genome.position) = Len(genome.phrogs)

\* C21: flip_genomes, format_data and format_data_flipped return nothing
\* for a genome whose per-gene lists differ in length: no genome with lists
\* of different lengths, and no category sequence with a feature list of
\* another length.
C21_MismatchRejected ==
    /\ pc = "flip_returned" =>
           \A j \in 1 .. Len(data) :
               ~SameLengths(training_data[j].value) => SameLengths(data[j].value)
    /\ pc \in {"format_data_returned", "format_data_flipped_returned"} =>
           \A g \in 1 .. Len(training_encodings) :
               \A k \in 1 .. NumFeatures :
                   Len(all_features[g][k]) = Len(training_encodings[g])

\* the text is a decimal numeral of the number n > 0
Denotes(text, n) ==
    LET body == IF text[1] = "+" THEN Tail(text) ELSE text
    IN  /\ body # <<>>
        /\ \A k \in 1 .. Len(body) : body[k] \in Digits
        /\ \E zeros \in 0 .. (Len(body) - 1) :
               /\ \A k \in 1 .. zeros : body[k] = "0"
               /\ SubSeq(body, zeros + 1, Len(body)) = str(n)

\* C22: Model.__init__ returns only for a supported feature subset, kept as
\* given, and a positive max_length; check_positive returns only for the
\* text of a positive integer, which it returns; both accept every such
\* input.
C22_ConfigurationChecked ==
    /\ pc = "Model_returned" =>
           /\ arg.features_include \in SupportedFeatures
           /\ self.features_include = arg.features_include
           /\ self.max_length > 0
    /\ pc = "Model_raised" =>
           (arg.features_include \notin SupportedFeatures \/ arg.max_length <= 0)
    /\ pc = "check_positive_returned" =>
           int_value > 0 /\ Denotes(arg, int_value)
    /\ pc = "check_positive_raised" =>
           ~\E n \in 1 .. 999 : Denotes(arg, n)

\* the genome passes both tests of the filter
PassesFilter(genome) ==
    /\ DistinctKnown(CategoriesOf(genome)) >= 4
    /\ MarkerAtAnEnd(CategoriesOf(genome))

\* C23: once the filter has examined every genome, no genome failing a test
\* is in the filtered dict, the kept count is the number of genomes passing
\* both tests and the dropped count is the number of genomes failing either
\* test, so that kept + dropped = genomes examined.
C23_CountsAccountForAll ==
    pc \in {"generate_data_report", "generate_data_returned"} =>
        LET passing == {j \in 1 .. Len(genomes) : PassesFilter(genomes[j].value)}
        IN  /\ \A j \in (1 .. Len(genomes)) \ passing :
                   dict_get(data, genomes[j].key) = None
            /\ included = Cardinality(passing)
            /\ not_included = Len(genomes) - Cardinality(passing)
            /\ included + not_included = Len(genomes)

\* the entries of a dict that are the first of their signature, in
\* insertion order, each replaced by the last entry of that signature
LastOfEachSignature(td) ==
    LET Same(a, b) == Signature(td[a].value) = Signature(td[b].value)
        IsFirst(j) == \A k \in 1 .. (j - 1) : ~Same(j, k)
        firsts == SelectSeq([j \in 1 .. Len(td) |-> j], IsFirst)
        LastOf(j) == CHOOSE k \in j .. Len(td) :
                         Same(j, k) /\ \A l \in (k + 1) .. Len(td) : ~Same(j, l)
    IN  [a \in 1 .. Len(firsts) |-> td[LastOf(firsts[a])]]

\* C24: of the genomes sharing a signature derep_trainingdata keeps exactly
\* one, the one inserted last, and its result is fixed by the insertion
\* order of the input: one entry per signature, in the order in which the
\* signatures first occur.
C24_LastWins ==
    pc = "derep_returned" =>
        /\ \A j \in 1 .. Len(training_data) :
               has_key(data_derep, training_data[j].key)
                   <=> \A k \in (j + 1) .. Len(training_data) :
                           Signature(training_data[k].value)
                               # Signature(training_data[j].value)
        /\ data_derep = LastOfEachSignature(training_data)

\* of three genomes the first and the third share a signature: the third
\* is kept, at the place of the first
C24_Witness ==
    /\ pc = "derep_returned"
    /\ Len(training_data) = 3
    /\ Signature(training_data[1].value) = Signature(training_data[3].value)
    /\ Signature(training_data[1].value) # Signature(training_data[2].value)
    /\ training_data[1].value # training_data[3].value
    /\ keys(data_derep) = <<training_data[3].key, training_data[2].key>>

\* the rows of the scores in the order of binary_scores for category c:
\* those of known category c, then the others
RowsFirst(c) ==
    LET rows == [r \in 1 .. Len(known_categories) |-> r]
        Is(r) == known_categories[r] = c
        IsNot(r) == known_categories[r] # c
    IN  SelectSeq(rows, Is) \o SelectSeq(rows, IsNot)

\* the sum of the scores of the classes 1 and above of a row
KnownSum(row) == np_sum(SubSeq(row, 2, Len(row)))

\* the sum of the quotients of a list, from element j on
RECURSIVE QuotientSum(_, _)
QuotientSum(l, j) ==
    IF j > Len(l) THEN [num |-> 0, den |-> 1]
    ELSE LET rest == QuotientSum(l, j + 1)
         IN  [num |-> l[j].num * rest.den + rest.num * l[j].den,
              den |-> l[j].den * rest.den]

\* C25: every row of normed_scores has one value per class other than the
\* unknown one, the value of class j times the row's sum over the classes
\* 1 and above is the score of class j, and the values of a row sum to 1;
\* the scores build_roc and per_category_auc collect for category c are
\* these values of class c, read at column c - 1.
C25_Renormalized ==
    /\ normed_scores # <<>> =>
           \A r \in 1 .. Len(scores_list) :
               /\ Len(normed_scores[r]) = NumFunctions - 1
               /\ \A c \in 1 .. (NumFunctions - 1) :
                      /\ normed_scores[r][c].den # 0
                      /\ normed_scores[r][c].num * KnownSum(scores_list[r])
                             = scores_list[r][c + 1] * normed_scores[r][c].den
               /\ SameValue(QuotientSum(normed_scores[r], 1), [num |-> 1, den |-> 1])
    /\ binary_scores # <<>> =>
           /\ Len(binary_scores) = Len(scores_list)
           /\ \A k \in 1 .. Len(binary_scores) :
                  LET row == scores_list[RowsFirst(i - 1)[k]]
                  IN  /\ binary_scores[k].den # 0
                      /\ binary_scores[k].num * KnownSum(row)
                             = row[i] * binary_scores[k].den

\* two instances of different scores, the second of known category 2, and
\* the scores of category 2 collected with the second instance first
C25_Witness ==
    /\ pc = "per_category_auc_loop"
    /\ i = 3
    /\ scores_list = <<<<2, 1, 0>> \o [c \in 1 .. (NumFunctions - 3) |-> 1],
                       [c \in 1 .. NumFunctions |-> IF c = 3 THEN 2 ELSE 1]>>
    /\ known_categories = <<1, 2>>
    /\ Len(binary_scores) = 2
    /\ SameValue(binary_scores[1], [num |-> 2, den |-> NumFunctions])
    /\ binary_scores[2].num = 0

\* the positions of the genes of genome g (1-based) in the order and the
\* orientation of the category sequence returned: those of the genome, or,
\* where format_data_flipped reverses it, the reflected positions of its
\* genes from the last to the first
PositionsReturned(g) ==
    LET genome == training_data[g].value
        n == Len(genome.position)
    IN  IF pc = "format_data_flipped_returned"
           /\ CategoriesOf(genome)[Len(genome.phrogs)] = 1
        THEN [k \in 1 .. n |-> <<genome.length - genome.position[n + 1 - k][2],
                                 genome.length - genome.position[n + 1 - k][1]>>]
        ELSE genome.position

\* C26: in what format_data and format_data_flipped return, the intergenic
\* value of a genome before scaling is 0 at its first gene and, at every
\* other gene, the start of that gene minus the end of the gene before it,
\* genes and coordinates taken as in the category sequence returned.
C26_IntergenicInOutputOrder ==
    pc \in {"format_data_returned", "format_data_flipped_returned"} =>
        \A g \in 1 .. Len(all_features) :
            \A k \in 1 .. Len(training_encodings[g]) :
                all_features[g][5][k].num =
                    IF k = 1 THEN 0
                    ELSE PositionsReturned(g)[k][1] - PositionsReturned(g)[k - 1][2]

Represented(d, genome) ==
    \E k \in 1 .. Len(d) :
        /\ d[k].value.sense = genome.sense
        /\ CategoriesOf(d[k].value) = CategoriesOf(genome)

\* C28: two genomes of the input whose strand lists differ or whose category
\* lists differ are not collapsed: what derep_trainingdata returns holds
\* each of them, or a genome of the same strands and categories, whatever
\* the category codes (of one digit or more) and the lengths.
C28_OnlyEqualCollapse ==
    pc = "derep_returned" =>
        \A a, b \in 1 .. Len(training_data) :
            (\/ training_data[a].value.sense # training_data[b].value.sense
             \/ CategoriesOf(training_data[a].value) # CategoriesOf(training_data[b].value))
                => /\ Represented(data_derep, training_data[a].value)
                   /\ Represented(data_derep, training_data[b].value)

\* the category c is the category of a gene of the genome s
Occurs(s, c) == c \in {s[k] : k \in 1 .. Len(s)}

\* every genome of the dataset holds a category of 1 .. num_functions - 1
EveryGenomeKnown ==
    \A g \in 1 .. Len(sequences) :
        \E c \in 1 .. (NumFunctions - 1) : Occurs(sequences[g], c)

\* C29 as stated: for a dataset that is not empty and whose genomes each
\* hold a category of 1 .. num_functions - 1, whatever the draws,
\* generate_dataset_unbiased_category returns at least one example.
C29_SomeGenomeIncluded ==
    (pc = "unbiased_returned" /\ sequences # <<>> /\ EveryGenomeKnown) =>
        /\ X # <<>> /\ y # <<>> /\ masked_func # <<>>
        /\ \E g \in 1 .. Len(genome_included) : genome_included[g] = 1

\* C29 as amended: generate_dataset_unbiased_category returns no example
\* exactly when the target first drawn, which is then still the target,
\* occurs in no genome; every genome is then marked 0.  A dataset whose
\* genomes each hold every category of 1 .. num_functions - 1 has all its
\* genomes included.
C29_EmptyIffTargetAbsent ==
    pc = "unbiased_returned" =>
        /\ masked_func = <<>> =>
               /\ \A g \in 1 .. Len(sequences) : ~Occurs(sequences[g], func)
               /\ X = <<>> /\ y = <<>>
               /\ \A g \in 1 .. Len(genome_included) : genome_included[g] = 0
        /\ masked_func # <<>> =>
               \E g \in 1 .. Len(sequences) :
                   /\ genome_included[g] = 1
                   /\ Occurs(sequences[g], masked_func[1])
                   /\ \A h \in 1 .. (g - 1) : ~Occurs(sequences[h], masked_func[1])
        /\ (\A g \in 1 .. Len(sequences) :
                \A c \in 1 .. (NumFunctions - 1) : Occurs(sequences[g], c))
               => Len(masked_func) = Len(sequences)

\* two genomes that hold the category 1 only, the target 2 drawn, and
\* nothing returned
C29_Witness ==
    /\ pc = "unbiased_returned"
    /\ sequences = <<<<1>>, <<1, 1>>>>
    /\ func = 2
    /\ genome_included = <<0, 0>>
    /\ X = <<>> /\ masked_func = <<>>

\* the feature columns of the tensor M hold the supplied features in the rows
\* of the genes and 0 elsewhere
FeaturesAsSupplied(M) ==
    \A r \in 1 .. Len(M) :
        \A k \in 1 .. (Len(M[r]) - NumFunctions) :
            M[r][NumFunctions + k] =
                IF k <= Len(features) /\ r <= Len(features[k])
                THEN features[k][r] ELSE 0

\* C30: in generate_example, writing a feature changes no column below
\* num_functions and leaves the target tensor alone; the masking step
\* changes nothing but the category block of row idx and leaves the target
\* tensor alone, and after it the feature columns of every row, row idx
\* included, hold the supplied values in the rows of the genes and 0
\* elsewhere.
C30_MaskingFrame ==
    [][/\ (pc = "example_features" /\ pc' = "example_features") =>
              /\ y' = y
              /\ \A r \in 1 .. Len(X) :
                     SubSeq(X'[r], 1, NumFunctions) = SubSeq(X[r], 1, NumFunctions)
       /\ (pc = "example_features" /\ pc' = "example_returned") =>
              /\ y' = y
              /\ Len(X') = Len(X)
              /\ \A r \in 1 .. Len(X) :
                     /\ Len(X'[r]) = Len(X[r])
                     /\ \A c \in 1 .. Len(X[r]) :
                            X'[r][c] # X[r][c] => (r = idx + 1 /\ c <= NumFunctions)
              /\ FeaturesAsSupplied(X')]_vars

\* a genome of two genes with features, shorter than max_length, masked at
\* its last gene: the features of the masked row are still there
C30_Witness ==
    /\ pc = "example_returned"
    /\ Len(sequence) = 2 /\ Len(sequence) < MaxLength
    /\ idx = 1
    /\ features # <<>>
    /\ CategoryBlock(X, 1) = ZeroVector(NumFunctions)
    /\ FeatureBlock(X, 1) = [k \in 1 .. NumFeatures |-> features[k][2]]

====
